---- MODULE Spec2Model ----
(***************************************************************************)
(* Real-time fan-out and alert-triggering engine of northwest-creek:       *)
(*   backend/app/services/alert_checker.py      (AlertChecker)             *)
(*   backend/app/services/websocket_service.py  (LivePriceService)         *)
(*   backend/app/api/v1/endpoints/alerts.py     (alert CRUD)               *)
(*   backend/app/api/v1/endpoints/live_prices.py (downstream endpoint)     *)
(*                                                                         *)
(* Every action is one atomic section of a coroutine: the code between two *)
(* awaits that can suspend (asyncio runs one coroutine at a time).         *)
(***************************************************************************)
EXTENDS Integers, Sequences, FiniteSets, TLC

\* ------------------------------------------------------------------------
\* Program constants and bounds
\* ------------------------------------------------------------------------
THROTTLE_SECONDS == 15

MaxAlerts == 2
MaxTasks  == 2
MaxTime   == 35
MaxConns  == 3
TimeStep  == 15
MaxFrameLen == 2

Tickers    == {"AAPL", "MSFT"}
AlertTickers == {"AAPL"}
AlertIds   == 1..MaxAlerts
Tasks      == 1..MaxTasks
Prices     == {1, 2, 3}
Targets    == {2}
TradePrices == {0, 1, 3}
Conditions == {"above", "below"}
Clients    == {"c1", "c2"}
ReconnectClients == {"c1"}
Listeners  == {"L1"}
Restarts   == {"L2"}
ListenerTasks == Listeners \cup Restarts
Notifiers  == {"sms", "email"}
Procs      == Clients \cup ListenerTasks \cup {"boot"}
ConnIds    == 1..MaxConns

Null == << >>

VARIABLES
    \* ---- AlertChecker and the alert store ----
    now,            \* event-loop clock, seconds
    store,          \* price_alerts table: AlertIds -> row
    last_check,     \* AlertChecker._last_check
    processing,     \* AlertChecker._processing
    task,           \* on_price_update coroutines: Tasks -> frame
    notified,       \* per alert: notifier / broadcast invocations so far
    starts,         \* per ticker: start times of the store-touching evaluations
    lastTick,       \* the latest on_price_update call and how it was answered
    outcome,        \* per alert: how the commit of its latest trigger ended
    \* ---- LivePriceService and the upstream feed ----
    running,            \* LivePriceService.running
    polygon_ws,         \* LivePriceService.polygon_ws: 0 is None, else a connection
    conns,              \* the connections opened so far, with the feed's view of each
    subscribed_tickers, \* LivePriceService.subscribed_tickers
    clients,            \* LivePriceService.clients
    interest,           \* per client: tickers it subscribed to and has not unsubscribed
    proc,               \* coroutines of the service: Procs -> frame
    replayState,        \* where the service is between an upstream drop and Streaming
    beforeDrop,         \* subscribed_tickers at the upstream drop
    \* ---- the tick path: price cache and Broadcaster ----
    price_cache,        \* LivePriceService.price_cache: per ticker the cached price, 0 is no entry
    data,               \* the trades of the frame the listener is working on
    bc,                 \* the broadcast_to_clients call in progress
    broken,             \* the downstream clients whose socket fails every write
    down                \* the notifiers whose provider fails every call: "sms", "email"

alertVars == <<now, store, last_check, processing, task, notified,
               starts, lastTick, outcome>>

feedVars == <<running, polygon_ws, conns, subscribed_tickers, clients, interest,
              proc, replayState, beforeDrop>>

streamVars == <<price_cache, data, bc, broken, down>>

vars == <<now, store, last_check, processing, task, notified,
          starts, lastTick, outcome,
          running, polygon_ws, conns, subscribed_tickers, clients, interest,
          proc, replayState, beforeDrop,
          price_cache, data, bc, broken, down>>

\* ------------------------------------------------------------------------
\* Alert store (db/models.py PriceAlert, alembic 004 / 010)
\* ------------------------------------------------------------------------
NoRow == [st |-> "absent", ticker |-> "", condition |-> "", target |-> 0,
          is_active |-> FALSE, triggered_at |-> Null]

DeletedRow == [NoRow EXCEPT !.st = "deleted"]

NewRow(t, c, p) == [st |-> "live", ticker |-> t, condition |-> c, target |-> p,
                    is_active |-> TRUE, triggered_at |-> Null]

IdleTask == [pc |-> "idle", ticker |-> "", price |-> 0, alerts |-> << >>,
             i |-> 0, dirty |-> {}]

NoNotif == [sms |-> 0, email |-> 0, ws |-> 0]

\* a connection to the feed: st is unused / open / closed, auth is the feed's
\* acknowledgment of the auth frame, subs the tickers the feed streams on it
NoConn == [st |-> "unused", auth |-> FALSE, subs |-> {}]

\* a coroutine of the service at rest: tickers is the set it is working on,
\* conn the connection its pending socket call was issued on
Frame == [pc |-> "off", tickers |-> {}, conn |-> 0]

\* no broadcast_to_clients call is in progress
\*   lsn / tsk: the coroutine that awaits the call, a listener or a task
\*   msg:    the message, cur: the client the pending send goes to
\*   reg0:   self.clients when the iteration began, seen: the clients visited
\*   sent:   the clients the message was written to, failed: disconnected_clients
NoBroadcast == [pc |-> "off", lsn |-> "", tsk |-> 0, msg |-> << >>, cur |-> "",
                reg0 |-> {}, seen |-> {}, sent |-> {}, failed |-> {}]

\* datetime.now(timezone.utc): the wall clock advances with the loop clock
UtcNow == now

\* the WHERE clause without "triggered_at == None"
ActiveAlertFilter_anyTriggered(row, t) ==
    /\ row.st = "live"
    /\ row.ticker = t
    /\ row.is_active = TRUE

\* the WHERE clause of the evaluation query
ActiveAlertFilter(row, t) ==
    /\ row.st = "live"
    /\ row.ticker = t
    /\ row.is_active = TRUE
    /\ row.triggered_at = Null

ActiveAlerts(t) == {a \in AlertIds : ActiveAlertFilter(store[a], t)}

\* result.scalars().all(): the rows in some order (no ORDER BY), as ORM
\* objects holding the column values read by the query
RECURSIVE SeqsOf(_)
SeqsOf(S) ==
    IF S = {} THEN {<< >>}
    ELSE UNION {{<<x>> \o s : s \in SeqsOf(S \ {x})} : x \in S}

Loaded(a) == [id |-> a, condition |-> store[a].condition, target |-> store[a].target]

QueryResults(t) ==
    {[j \in 1..Len(s) |-> Loaded(s[j])] : s \in SeqsOf(ActiveAlerts(t))}

\* alert.sms_enabled and user.phone_verified and user.phone_number:
\* the alerts with an odd id are the ones whose owner opted in to SMS
SmsOptIn(a) == a % 2 = 1

\* _evaluate_condition with the second test dropped: anything that is not
\* "above" is taken as "below"
EvaluateCondition_else(condition, target_price, current_price) ==
    IF condition = "above" THEN current_price >= target_price
    ELSE current_price <= target_price

\* _evaluate_condition with strict comparisons
EvaluateCondition_strict(condition, target_price, current_price) ==
    IF condition = "above" THEN current_price > target_price
    ELSE IF condition = "below" THEN current_price < target_price
    ELSE FALSE

\* AlertChecker._evaluate_condition
EvaluateCondition(condition, target_price, current_price) ==
    IF condition = "above" THEN current_price >= target_price
    ELSE IF condition = "below" THEN current_price <= target_price
    ELSE FALSE

\* the throttle test with the comparison inverted
Throttled_inverted(t) == now - last_check[t] > THROTTLE_SECONDS

\* if now - last < THROTTLE_SECONDS: return
Throttled(t) == now - last_check[t] < THROTTLE_SECONDS

\* on_price_update without the overlap guard
InFlight_unguarded(t) == FALSE

\* if ticker in self._processing: return
InFlight(t) == t \in processing

\* broadcast_to_clients lines 199-207, up to the first await client.send:
\* the iteration over self.clients begins with some client
BcStart(l, k, msg) ==
    \E c \in clients :
        bc' = [pc |-> "send", lsn |-> l, tsk |-> k, msg |-> msg, cur |-> c,
               reg0 |-> clients, seen |-> {c}, sent |-> {}, failed |-> {}]

\* the lowest free coroutine frame
FreeTask == CHOOSE k \in Tasks : task[k].pc = "idle" /\ \A j \in Tasks : task[j].pc = "idle" => k <= j

\* ------------------------------------------------------------------------
\* Init
\* ------------------------------------------------------------------------
InitService ==
    /\ running = FALSE
    /\ polygon_ws = 0
    /\ conns = [c \in ConnIds |-> NoConn]
    /\ subscribed_tickers = {}
    /\ clients = {}
    /\ interest = [c \in Clients |-> {}]
    /\ proc = [p \in Procs |-> IF p = "boot" THEN [Frame EXCEPT !.pc = "init"] ELSE Frame]
    /\ replayState = "idle"
    /\ beforeDrop = {}
    /\ price_cache = [t \in Tickers |-> 0]
    /\ data = << >>
    /\ bc = NoBroadcast
    /\ broken = {}

InitAlert ==
    /\ InitService
    /\ down = {}
    /\ now = 0
    /\ store = [a \in AlertIds |-> NoRow]
    /\ last_check = [t \in Tickers |-> 0]
    /\ processing = {}
    /\ task = [k \in Tasks |-> IdleTask]
    /\ notified = [a \in AlertIds |-> NoNotif]
    /\ starts = [t \in Tickers |-> << >>]
    /\ lastTick = "none"
    /\ outcome = [a \in AlertIds |-> "none"]

\* ------------------------------------------------------------------------
\* AlertChecker.on_price_update
\* ------------------------------------------------------------------------
\* the call gets past the throttle and the overlap guard
Starts(t) == ~Throttled(t) /\ ~InFlight(t)

\* on_price_update with _last_check[ticker] = now moved above the overlap guard
OnPriceUpdateBody_stampEarly(t, p) ==
    /\ \E k \in Tasks : task[k].pc = "idle"
    /\ IF Throttled(t)
       THEN /\ lastTick' = "throttled"
            /\ UNCHANGED <<last_check, processing, task, starts>>
       ELSE IF InFlight(t)
       THEN /\ lastTick' = "inflight"
            /\ last_check' = [last_check EXCEPT ![t] = now]
            /\ UNCHANGED <<processing, task, starts>>
       ELSE /\ lastTick' = "started"
            /\ last_check' = [last_check EXCEPT ![t] = now]
            /\ processing' = processing \cup {t}
            /\ task' = [task EXCEPT ![FreeTask] =
                          [IdleTask EXCEPT !.pc = "query", !.ticker = t, !.price = p]]
            /\ starts' = [starts EXCEPT ![t] = Append(@, now)]
    /\ UNCHANGED <<now, store, notified, outcome>>

\* lines 73-84 and the entry of _check_alerts_for_ticker up to the first await
OnPriceUpdateBody(t, p) ==
    /\ \E k \in Tasks : task[k].pc = "idle"
    /\ IF Throttled(t)
       THEN /\ lastTick' = "throttled"
            /\ UNCHANGED <<last_check, processing, task, starts>>
       ELSE IF InFlight(t)
       THEN /\ lastTick' = "inflight"
            /\ UNCHANGED <<last_check, processing, task, starts>>
       ELSE /\ lastTick' = "started"
            /\ last_check' = [last_check EXCEPT ![t] = now]
            /\ processing' = processing \cup {t}
            /\ task' = [task EXCEPT ![FreeTask] =
                          [IdleTask EXCEPT !.pc = "query", !.ticker = t, !.price = p]]
            /\ starts' = [starts EXCEPT ![t] = Append(@, now)]
    /\ UNCHANGED <<now, store, notified, outcome>>

\* on_price_update called with a trade (ticker t, price p)
OnPriceUpdate(t, p) ==
    /\ OnPriceUpdateBody(t, p)
    /\ UNCHANGED feedVars
    /\ UNCHANGED streamVars

\* on_price_update without the finally clause
Return_noDiscard(k) ==
    /\ processing' = processing
    /\ task' = [task EXCEPT ![k] = IdleTask]

\* on_price_update returns: except Exception (print), finally discard
Return(k) ==
    /\ processing' = processing \ {task[k].ticker}
    /\ task' = [task EXCEPT ![k] = IdleTask]

\* db.execute(select ...) completes
Query(k) ==
    /\ task[k].pc = "query"
    /\ \E rows \in QueryResults(task[k].ticker) :
         IF rows = << >>
         THEN Return(k)                       \* if not alerts: return
         ELSE /\ task' = [task EXCEPT ![k].pc = "loop", ![k].alerts = rows, ![k].i = 1]
              /\ UNCHANGED processing
    /\ UNCHANGED <<now, store, last_check, notified, starts, lastTick, outcome>>
    /\ UNCHANGED feedVars
    /\ UNCHANGED streamVars

\* the exception of a failed query caught neither by on_price_update nor by
\* the listener's alert hook: it ends the frame in the listener's
\* "except Exception"
QueryFail_uncaught(k) ==
    /\ task[k].pc = "query"
    /\ Return(k)
    /\ proc' = [proc EXCEPT !["L1"] = [pc |-> "sleep", tickers |-> {}, conn |-> 0]]
    /\ data' = << >>
    /\ UNCHANGED <<now, store, last_check, notified, starts, lastTick, outcome>>
    /\ UNCHANGED <<running, polygon_ws, conns, subscribed_tickers, clients, interest,
                   replayState, beforeDrop>>
    /\ UNCHANGED <<price_cache, bc, broken, down>>

\* db.execute raises: rollback, raise, caught by on_price_update
QueryFail(k) ==
    /\ task[k].pc = "query"
    /\ Return(k)
    /\ UNCHANGED <<now, store, last_check, notified, starts, lastTick, outcome>>
    /\ UNCHANGED feedVars
    /\ UNCHANGED streamVars

\* the notifier calls of _trigger_alert without their try / except
NotifierErrorCaught_none == FALSE

\* _trigger_alert lines 166-180 and 184-196: try / except Exception around
\* each notifier call
NotifierErrorCaught == TRUE

\* one iteration of "for alert in alerts" up to the broadcast await:
\* _evaluate_condition, and for a match _trigger_alert steps 1-3
\* an exception that leaves _trigger_alert ends the evaluation: rollback,
\* raise, caught by on_price_update
EvalAlert(k) ==
    /\ task[k].pc = "loop"
    /\ LET a == task[k].alerts[task[k].i]
           hit == EvaluateCondition(a.condition, a.target, task[k].price)
           smsRaises == SmsOptIn(a.id) /\ "sms" \in down
           emailRaises == "email" \in down
           smsEscapes == smsRaises /\ ~NotifierErrorCaught
           emailEscapes == emailRaises /\ ~NotifierErrorCaught
       IN IF hit
             THEN /\ notified' = [notified EXCEPT
                                    ![a.id].sms = @ + (IF SmsOptIn(a.id) THEN 1 ELSE 0),
                                    ![a.id].email = @ + (IF smsEscapes THEN 0 ELSE 1)]
                  /\ IF smsEscapes \/ emailEscapes
                     THEN Return(k)
                     ELSE /\ task' = [task EXCEPT ![k].pc = "broadcast",
                                        ![k].dirty = @ \cup {<<a.id, UtcNow>>}]
                          /\ UNCHANGED processing
             ELSE /\ UNCHANGED <<notified, processing>>
                  /\ task' = [task EXCEPT
                                ![k].i = @ + 1,
                                ![k].pc = IF task[k].i = Len(task[k].alerts)
                                          THEN "commit" ELSE "loop"]
    /\ UNCHANGED <<now, store, last_check, starts, lastTick, outcome>>
    /\ UNCHANGED feedVars
    /\ UNCHANGED streamVars

\* the loop over the alerts left after the first trigger (a break)
AfterTrigger_break(k) ==
    [task EXCEPT ![k].i = @ + 1, ![k].pc = "commit"]

\* the task goes on after _trigger_alert: next alert of the loop, or commit
AfterTrigger(k) ==
    [task EXCEPT ![k].i = @ + 1,
                 ![k].pc = IF task[k].i = Len(task[k].alerts) THEN "commit" ELSE "loop"]

\* _trigger_alert calling the broadcast function a second time after a call
\* that reached no client
BroadcastAlert_twice(k) ==
    /\ task[k].pc = "broadcast"
    /\ LET a == task[k].alerts[task[k].i]
       IN IF clients = {}
          THEN /\ notified' = [notified EXCEPT ![a.id].ws = @ + 2]
               /\ task' = AfterTrigger(k)
               /\ bc' = bc
          ELSE /\ notified' = [notified EXCEPT ![a.id].ws = @ + 1]
               /\ task' = [task EXCEPT ![k].pc = "bcast"]
               /\ BcStart("", k, <<"alert_triggered", a.id>>)
    /\ UNCHANGED <<now, store, last_check, processing, starts, lastTick, outcome>>
    /\ UNCHANGED feedVars
    /\ UNCHANGED <<price_cache, data, broken, down>>

\* _trigger_alert step 4: await self._broadcast_fn({"type": "alert_triggered", ...})
\* broadcast_to_clients returns at once when no client is registered
BroadcastAlert(k) ==
    /\ task[k].pc = "broadcast"
    /\ LET a == task[k].alerts[task[k].i]
       IN /\ notified' = [notified EXCEPT ![a.id].ws = @ + 1]
          /\ IF clients = {}
             THEN /\ task' = AfterTrigger(k)
                  /\ bc' = bc
             ELSE /\ task' = [task EXCEPT ![k].pc = "bcast"]
                  /\ BcStart("", k, <<"alert_triggered", a.id>>)
    /\ UNCHANGED <<now, store, last_check, processing, starts, lastTick, outcome>>
    /\ UNCHANGED feedVars
    /\ UNCHANGED <<price_cache, data, broken, down>>

DirtyIds(k) == {d[1] : d \in task[k].dirty}

\* the flush at commit: UPDATE price_alerts SET triggered_at, is_active WHERE id
Flushed(k) ==
    [a \in AlertIds |->
        IF a \in DirtyIds(k)
        THEN [store[a] EXCEPT !.is_active = FALSE,
                              !.triggered_at = <<(CHOOSE d \in task[k].dirty : d[1] = a)[2]>>]
        ELSE store[a]]

\* await db.commit() succeeds (an UPDATE of a deleted row raises StaleDataError)
Commit(k) ==
    /\ task[k].pc = "commit"
    /\ \A a \in DirtyIds(k) : store[a].st = "live"
    /\ store' = Flushed(k)
    /\ outcome' = [a \in AlertIds |-> IF a \in DirtyIds(k) THEN "persisted" ELSE outcome[a]]
    /\ Return(k)
    /\ UNCHANGED <<now, last_check, notified, starts, lastTick>>
    /\ UNCHANGED feedVars
    /\ UNCHANGED streamVars

\* on_price_update with the discard at the end of its try block instead of in
\* a finally clause: the exception of a failed commit skips it
CommitFail_held(k) ==
    /\ task[k].pc = "commit"
    /\ outcome' = [a \in AlertIds |-> IF a \in DirtyIds(k) THEN "failed" ELSE outcome[a]]
    /\ processing' = processing
    /\ task' = [task EXCEPT ![k] = IdleTask]
    /\ UNCHANGED <<now, store, last_check, notified, starts, lastTick>>
    /\ UNCHANGED feedVars
    /\ UNCHANGED streamVars

\* await db.commit() raises: rollback, raise, caught by on_price_update
CommitFail(k) ==
    /\ task[k].pc = "commit"
    /\ outcome' = [a \in AlertIds |-> IF a \in DirtyIds(k) THEN "failed" ELSE outcome[a]]
    /\ Return(k)
    /\ UNCHANGED <<now, store, last_check, notified, starts, lastTick>>
    /\ UNCHANGED feedVars
    /\ UNCHANGED streamVars

\* ------------------------------------------------------------------------
\* Alert CRUD (endpoints/alerts.py); each handler's effect is its commit
\* ------------------------------------------------------------------------
NextId == CHOOSE a \in AlertIds : store[a].st = "absent" /\ \A b \in AlertIds : store[b].st = "absent" => a <= b

create_alert(t, c, p) ==
    /\ \E a \in AlertIds : store[a].st = "absent"
    /\ store' = [store EXCEPT ![NextId] = NewRow(t, c, p)]
    /\ UNCHANGED <<now, last_check, processing, task, notified, starts, lastTick, outcome>>
    /\ UNCHANGED feedVars
    /\ UNCHANGED streamVars

\* update_data = {is_active: act} (pause / resume alert)
update_alert(a, act) ==
    /\ store[a].st = "live"
    /\ store' = [store EXCEPT ![a].is_active = act]
    /\ UNCHANGED <<now, last_check, processing, task, notified, starts, lastTick, outcome>>
    /\ UNCHANGED feedVars
    /\ UNCHANGED streamVars

delete_alert(a) ==
    /\ store[a].st = "live"
    /\ store' = [store EXCEPT ![a] = DeletedRow]
    /\ UNCHANGED <<now, last_check, processing, task, notified, starts, lastTick, outcome>>
    /\ UNCHANGED feedVars
    /\ UNCHANGED streamVars

\* time passes
Advance ==
    /\ now + TimeStep <= MaxTime
    /\ now' = now + TimeStep
    /\ UNCHANGED <<store, last_check, processing, task, notified, starts, lastTick, outcome>>
    /\ UNCHANGED feedVars
    /\ UNCHANGED streamVars

NextAlert ==
    \/ \E t \in AlertTickers, p \in Prices : OnPriceUpdate(t, p)
    \/ \E k \in Tasks : Query(k)
    \/ \E k \in Tasks : QueryFail(k)
    \/ \E k \in Tasks : EvalAlert(k)
    \/ \E k \in Tasks : BroadcastAlert(k)
    \/ \E k \in Tasks : Commit(k)
    \/ \E k \in Tasks : CommitFail(k)
    \/ \E t \in AlertTickers, c \in Conditions, p \in Targets : create_alert(t, c, p)
    \/ \E a \in AlertIds, act \in BOOLEAN : update_alert(a, act)
    \/ \E a \in AlertIds : delete_alert(a)
    \/ Advance

SpecAlert == InitAlert /\ [][NextAlert]_vars

\* The throttle and the in-flight guard with trades for every ticker: the
\* store holds one active alert (AAPL above 2) and the CRUD layer is quiet.
InitThrottle ==
    /\ InitService
    /\ down = {}
    /\ now = 0
    /\ store = [a \in AlertIds |-> IF a = 1 THEN NewRow("AAPL", "above", 2) ELSE NoRow]
    /\ last_check = [t \in Tickers |-> 0]
    /\ processing = {}
    /\ task = [k \in Tasks |-> IdleTask]
    /\ notified = [a \in AlertIds |-> NoNotif]
    /\ starts = [t \in Tickers |-> << >>]
    /\ lastTick = "none"
    /\ outcome = [a \in AlertIds |-> "none"]

NextThrottle ==
    \/ \E t \in Tickers, p \in Prices : OnPriceUpdate(t, p)
    \/ \E k \in Tasks : Query(k)
    \/ \E k \in Tasks : QueryFail(k)
    \/ \E k \in Tasks : EvalAlert(k)
    \/ \E k \in Tasks : BroadcastAlert(k)
    \/ \E k \in Tasks : Commit(k)
    \/ \E k \in Tasks : CommitFail(k)
    \/ Advance

SpecThrottle == InitThrottle /\ [][NextThrottle]_vars

\* The trigger sequence with notifiers that fail: the store holds two active
\* alerts on AAPL (alert 1 with SMS opt-in), each provider is up or down.
InitNotify ==
    /\ InitService
    /\ down \in SUBSET Notifiers
    /\ now = 0
    /\ store = [a \in AlertIds |-> IF a <= 2 THEN NewRow("AAPL", "above", 2) ELSE NoRow]
    /\ last_check = [t \in Tickers |-> 0]
    /\ processing = {}
    /\ task = [k \in Tasks |-> IdleTask]
    /\ notified = [a \in AlertIds |-> NoNotif]
    /\ starts = [t \in Tickers |-> << >>]
    /\ lastTick = "none"
    /\ outcome = [a \in AlertIds |-> "none"]

SpecNotify == InitNotify /\ [][NextThrottle]_vars

\* The inputs of _evaluate_condition: the condition column is a String(10), the
\* API accepts above and below only, a row written past the API can hold any
\* other word; the target and the tick price range over the same prices.
AnyConditions == Conditions \cup {"equal"}

\* One alert on AAPL with any condition and any target; the ticks of
\* NextThrottle apply _evaluate_condition to it with every price.
InitCondition ==
    /\ InitService
    /\ down = {}
    /\ now = 0
    /\ \E c \in AnyConditions, p \in Prices :
          store = [a \in AlertIds |-> IF a = 1 THEN NewRow("AAPL", c, p) ELSE NoRow]
    /\ last_check = [t \in Tickers |-> 0]
    /\ processing = {}
    /\ task = [k \in Tasks |-> IdleTask]
    /\ notified = [a \in AlertIds |-> NoNotif]
    /\ starts = [t \in Tickers |-> << >>]
    /\ lastTick = "none"
    /\ outcome = [a \in AlertIds |-> "none"]

SpecCondition == InitCondition /\ [][NextThrottle]_vars

\* ------------------------------------------------------------------------
\* LivePriceService (websocket_service.py) and its callers
\* ------------------------------------------------------------------------
At(pcname, T, c) == [pc |-> pcname, tickers |-> T, conn |-> c]

\* not (not self.polygon_ws or self.polygon_ws.closed)
WsUsable == polygon_ws # 0 /\ conns[polygon_ws].st = "open"

FreshConn == CHOOSE c \in ConnIds : conns[c].st = "unused" /\ \A d \in ConnIds : conns[d].st = "unused" => c <= d

\* tickers that have an active, untriggered alert in the store
AlertTickerSet == {t \in Tickers : ActiveAlerts(t) # {}}

\* listener l calls polygon_ws.recv() on connection c (lines 146-149): the call
\* raises at once when another listener task is already waiting in recv on the
\* same connection, and "except Exception" sends l to its 5 s sleep
RecvFrom(l, c) ==
    IF \E m \in ListenerTasks \ {l} : proc[m].pc = "recv" /\ proc[m].conn = c
    THEN At("sleep", {}, 0)
    ELSE At("recv", {}, c)

\* the listener reaches recv: an episode that began with an upstream drop ends
\* when recv is issued on an authenticated open connection
ReachRecv ==
    IF polygon_ws' # 0 /\ conns'[polygon_ws'].st = "open" /\ conns'[polygon_ws'].auth
    THEN replayState' = "idle" /\ beforeDrop' = {}
    ELSE UNCHANGED <<replayState, beforeDrop>>

\* a client request that changes the subscriptions between a drop and the replay
Interfere ==
    /\ replayState' = IF replayState = "down" THEN "interfered" ELSE replayState
    /\ UNCHANGED beforeDrop

\* subscribe_to_tickers returns to its caller p
\*   lifespan: start() sets running and creates the listener task
\*   handle_client_message: back to receive_text
\*   listen_to_polygon: on to polygon_ws.recv()
SubReturns(p) ==
    IF p = "boot"
    THEN /\ running' = TRUE
         /\ proc' = [proc EXCEPT !["boot"] = At("up", {}, 0), !["L1"] = At("top", {}, 0)]
         /\ UNCHANGED <<replayState, beforeDrop>>
    ELSE IF p \in Clients
    THEN /\ running' = running
         /\ proc' = [proc EXCEPT ![p] = At("idle", {}, 0)]
         /\ UNCHANGED <<replayState, beforeDrop>>
    ELSE /\ running' = running
         /\ proc' = [proc EXCEPT ![p] = RecvFrom(p, polygon_ws')]
         /\ ReachRecv

\* subscribe_to_tickers without "if not new_tickers: return" and with the
\* frame built from all the requested tickers
TrySend_always(p, T, subs) ==
    /\ running' = running
    /\ proc' = [proc EXCEPT ![p] = At("send", T, polygon_ws')]
    /\ UNCHANGED <<replayState, beforeDrop>>

\* subscribe_to_tickers lines 75-85: subs is subscribed_tickers as it is now
TrySend(p, T, subs) ==
    IF T \ subs = {}
    THEN SubReturns(p)
    ELSE /\ running' = running
         /\ proc' = [proc EXCEPT ![p] = At("send", T \ subs, polygon_ws')]
         /\ UNCHANGED <<replayState, beforeDrop>>

\* subscribe_to_tickers lines 71-85, up to its first await
SubscribeEntry(p, T, subs) ==
    IF ~WsUsable
    THEN /\ running' = running
         /\ proc' = [proc EXCEPT ![p] = At("connecting", T, 0)]
         /\ UNCHANGED <<replayState, beforeDrop>>
    ELSE TrySend(p, T, subs)

\* connect_to_polygon returned False to its caller p
ConnectReturnsFalse(p) ==
    IF p \in ListenerTasks
    THEN /\ running' = running
         /\ proc' = [proc EXCEPT ![p] = At("sleep", {}, 0)]
         /\ UNCHANGED <<replayState, beforeDrop>>
    ELSE SubReturns(p)

\* lifespan: load_alert_tickers, then start()
BootLoad(ok) ==
    /\ proc["boot"].pc = "init"
    /\ UNCHANGED <<polygon_ws, conns, subscribed_tickers, clients, interest>>
    /\ IF ok /\ AlertTickerSet # {}
       THEN SubscribeEntry("boot", AlertTickerSet, subscribed_tickers)
       ELSE SubReturns("boot")
    /\ UNCHANGED alertVars
    /\ UNCHANGED streamVars

\* websockets.connect raises
ConnectFail(p) ==
    /\ proc[p].pc = "connecting"
    /\ UNCHANGED <<polygon_ws, conns, subscribed_tickers, clients, interest>>
    /\ ConnectReturnsFalse(p)
    /\ UNCHANGED alertVars
    /\ UNCHANGED streamVars

\* websockets.connect returns: self.polygon_ws is the new connection, the auth
\* frame is sent on it
ConnectOpen(p) ==
    /\ proc[p].pc = "connecting"
    /\ \E c \in ConnIds : conns[c].st = "unused"
    /\ polygon_ws' = FreshConn
    /\ conns' = [conns EXCEPT ![FreshConn].st = "open"]
    /\ proc' = [proc EXCEPT ![p] = At("authing", proc[p].tickers, FreshConn)]
    /\ UNCHANGED <<running, subscribed_tickers, clients, interest, replayState, beforeDrop>>
    /\ UNCHANGED alertVars
    /\ UNCHANGED streamVars

\* the feed answers auth_success: connect_to_polygon returns True
\*   listen_to_polygon: copy, clear and resubscribe (lines 139-143)
\*   subscribe_to_tickers: lines 75-85
AuthOk(p) ==
    /\ proc[p].pc = "authing"
    /\ conns[proc[p].conn].st = "open"
    /\ conns' = [conns EXCEPT ![proc[p].conn].auth = TRUE]
    /\ polygon_ws' = polygon_ws
    /\ UNCHANGED <<clients, interest>>
    /\ IF p \in ListenerTasks
       THEN IF subscribed_tickers # {}
            THEN /\ subscribed_tickers' = {}
                 /\ SubscribeEntry(p, subscribed_tickers, {})
            ELSE /\ subscribed_tickers' = subscribed_tickers
                 /\ running' = running
                 /\ proc' = [proc EXCEPT ![p] = RecvFrom(p, polygon_ws)]
                 /\ ReachRecv
       ELSE /\ subscribed_tickers' = subscribed_tickers
            /\ TrySend(p, proc[p].tickers, subscribed_tickers)
    /\ UNCHANGED alertVars
    /\ UNCHANGED streamVars

\* the feed answers with another status, or the connection broke before the
\* answer: connect_to_polygon returns False, self.polygon_ws stays as it is
AuthReject(p) ==
    /\ proc[p].pc = "authing"
    /\ UNCHANGED <<polygon_ws, conns, subscribed_tickers, clients, interest>>
    /\ ConnectReturnsFalse(p)
    /\ UNCHANGED alertVars
    /\ UNCHANGED streamVars

\* subscribe_to_tickers with the set updated before the send is awaited: the
\* update stays when the send raises
SendDone_optimistic(p) ==
    /\ proc[p].pc = "send"
    /\ LET c == proc[p].conn
           new == proc[p].tickers
       IN /\ conns' = IF conns[c].st = "open" /\ conns[c].auth
                      THEN [conns EXCEPT ![c].subs = @ \cup new] ELSE conns
          /\ subscribed_tickers' = subscribed_tickers \cup new
    /\ polygon_ws' = polygon_ws
    /\ UNCHANGED <<clients, interest>>
    /\ SubReturns(p)
    /\ UNCHANGED alertVars
    /\ UNCHANGED streamVars

\* await self.polygon_ws.send(subscribe_message) ends: on an open connection
\* the frame is out and the set is updated, on a closed one send raises
SendDone(p) ==
    /\ proc[p].pc = "send"
    /\ LET c == proc[p].conn
           new == proc[p].tickers
       IN IF conns[c].st = "open"
          THEN /\ conns' = [conns EXCEPT ![c].subs = IF conns[c].auth THEN @ \cup new ELSE @]
               /\ subscribed_tickers' = subscribed_tickers \cup new
          ELSE UNCHANGED <<conns, subscribed_tickers>>
    /\ polygon_ws' = polygon_ws
    /\ UNCHANGED <<clients, interest>>
    /\ SubReturns(p)
    /\ UNCHANGED alertVars
    /\ UNCHANGED streamVars

\* await self.polygon_ws.send(unsubscribe_message) ends
UnsendDone(c) ==
    /\ proc[c].pc = "unsend"
    /\ LET w == proc[c].conn
           rem == proc[c].tickers
       IN IF conns[w].st = "open"
          THEN /\ conns' = [conns EXCEPT ![w].subs = @ \ rem]
               /\ subscribed_tickers' = subscribed_tickers \ rem
          ELSE UNCHANGED <<conns, subscribed_tickers>>
    /\ proc' = [proc EXCEPT ![c] = At("idle", {}, 0)]
    /\ UNCHANGED <<running, polygon_ws, clients, interest, replayState, beforeDrop>>
    /\ UNCHANGED alertVars
    /\ UNCHANGED streamVars

\* listen_to_polygon: the head of the while loop, up to the first await
ListenTop(l) ==
    /\ proc[l].pc = "top"
    /\ UNCHANGED <<running, polygon_ws, conns, subscribed_tickers, clients, interest>>
    /\ IF ~running
       THEN proc' = [proc EXCEPT ![l] = Frame] /\ UNCHANGED <<replayState, beforeDrop>>
       ELSE IF ~WsUsable
       THEN proc' = [proc EXCEPT ![l] = At("connecting", {}, 0)] /\ UNCHANGED <<replayState, beforeDrop>>
       ELSE proc' = [proc EXCEPT ![l] = RecvFrom(l, polygon_ws)] /\ ReachRecv
    /\ UNCHANGED alertVars
    /\ UNCHANGED streamVars

\* no frame within 30 s (asyncio.TimeoutError, ping), or a frame without trades
RecvIdle(l) ==
    /\ proc[l].pc = "recv"
    /\ conns[proc[l].conn].st = "open"
    /\ proc' = [proc EXCEPT ![l] = At("top", {}, 0)]
    /\ UNCHANGED <<running, polygon_ws, conns, subscribed_tickers, clients, interest,
                   replayState, beforeDrop>>
    /\ UNCHANGED alertVars
    /\ UNCHANGED streamVars

\* listen_to_polygon without "except Exception": the error ends the listener
RecvError_fatal(l) ==
    /\ proc[l].pc = "recv"
    /\ conns[proc[l].conn].st = "closed"
    /\ proc' = [proc EXCEPT ![l] = Frame]
    /\ UNCHANGED <<running, polygon_ws, conns, subscribed_tickers, clients, interest,
                   replayState, beforeDrop>>
    /\ UNCHANGED alertVars
    /\ UNCHANGED streamVars

\* recv raises on a closed connection: except Exception, sleep(5)
RecvError(l) ==
    /\ proc[l].pc = "recv"
    /\ conns[proc[l].conn].st = "closed"
    /\ proc' = [proc EXCEPT ![l] = At("sleep", {}, 0)]
    /\ UNCHANGED <<running, polygon_ws, conns, subscribed_tickers, clients, interest,
                   replayState, beforeDrop>>
    /\ UNCHANGED alertVars
    /\ UNCHANGED streamVars

\* recv returns a frame that is not JSON or not a list of events: json.loads
\* or msg.get raises, except Exception, sleep(5)
RecvMalformed(l) ==
    /\ proc[l].pc = "recv"
    /\ conns[proc[l].conn].st = "open"
    /\ proc' = [proc EXCEPT ![l] = At("sleep", {}, 0)]
    /\ UNCHANGED <<running, polygon_ws, conns, subscribed_tickers, clients, interest,
                   replayState, beforeDrop>>
    /\ UNCHANGED alertVars
    /\ UNCHANGED streamVars

\* asyncio.sleep(5) is over
ListenWake(l) ==
    /\ proc[l].pc = "sleep"
    /\ proc' = [proc EXCEPT ![l] = At("top", {}, 0)]
    /\ UNCHANGED <<running, polygon_ws, conns, subscribed_tickers, clients, interest,
                   replayState, beforeDrop>>
    /\ UNCHANGED alertVars
    /\ UNCHANGED streamVars

\* a connection after the upstream side or the network closed it
ClosedConn == [st |-> "closed", auth |-> FALSE, subs |-> {}]

\* the upstream connection breaks
Drop(c) ==
    /\ conns[c].st = "open"
    /\ conns' = [conns EXCEPT ![c] = ClosedConn]
    /\ UNCHANGED <<running, polygon_ws, subscribed_tickers, clients, interest, proc,
                   replayState, beforeDrop>>
    /\ UNCHANGED alertVars
    /\ UNCHANGED streamVars

\* the upstream connection breaks while the listener is streaming on it and no
\* subscription request is in progress; the subscription set of this moment is
\* remembered until the listener is streaming again
DropStreaming(c) ==
    /\ conns[c].st = "open"
    /\ replayState = "idle"
    /\ c = polygon_ws
    /\ conns[c].auth
    /\ \E l \in Listeners : proc[l].pc = "recv" /\ proc[l].conn = c
    /\ \A p \in Procs \ Listeners : proc[p].pc \in {"off", "idle", "up"}
    /\ conns' = [conns EXCEPT ![c] = ClosedConn]
    /\ replayState' = "down"
    /\ beforeDrop' = subscribed_tickers
    /\ UNCHANGED <<running, polygon_ws, subscribed_tickers, clients, interest, proc>>
    /\ UNCHANGED alertVars
    /\ UNCHANGED streamVars

\* the task asyncio.create_task(self.listen_to_polygon()) makes in start()
NewTask == IF proc["L1"].pc = "off" THEN "L1" ELSE "L2"

\* websocket_endpoint lines 43-44: start() if the service is not running; the
\* handler then waits in receive_text. start() makes a new listener task,
\* whatever became of the task of an earlier start()
EndpointReady(c) ==
    /\ running' = TRUE
    /\ IF running
       THEN proc' = [proc EXCEPT ![c] = At("idle", {}, 0)]
       ELSE /\ \E l \in ListenerTasks : proc[l].pc = "off"
            /\ proc' = [proc EXCEPT ![c] = At("idle", {}, 0),
                                    ![NewTask] = At("top", {}, 0)]

\* LivePriceService.stop(), called by the lifespan at shutdown: running is
\* cleared and an open upstream connection is closed; the listener task is
\* neither cancelled nor awaited
stop ==
    /\ proc["boot"].pc = "up"
    /\ running' = FALSE
    /\ conns' = IF WsUsable THEN [conns EXCEPT ![polygon_ws] = ClosedConn] ELSE conns
    /\ UNCHANGED <<polygon_ws, subscribed_tickers, clients, interest, proc,
                   replayState, beforeDrop>>
    /\ UNCHANGED alertVars
    /\ UNCHANGED streamVars

\* websocket_endpoint: accept, add_client; a non-empty price cache is sent to
\* the new client (an await) before the handler goes on
ClientConnect(c) ==
    /\ proc["boot"].pc = "up"
    /\ proc[c].pc = "off"
    /\ c \notin clients
    /\ clients' = clients \cup {c}
    /\ IF \A t \in Tickers : price_cache[t] = 0
       THEN EndpointReady(c)
       ELSE /\ running' = running
            /\ proc' = [proc EXCEPT ![c] = At("greet", {}, 0)]
    /\ UNCHANGED <<polygon_ws, conns, subscribed_tickers, interest, replayState, beforeDrop>>
    /\ UNCHANGED alertVars
    /\ UNCHANGED streamVars

\* add_client: await websocket.send(price_cache) ends; when it raises the
\* handler dies outside its try block and the client stays registered
GreetDone(c) ==
    /\ proc[c].pc = "greet"
    /\ IF c \in broken
       THEN /\ running' = running
            /\ proc' = [proc EXCEPT ![c] = Frame]
       ELSE EndpointReady(c)
    /\ UNCHANGED <<polygon_ws, conns, subscribed_tickers, clients, interest,
                   replayState, beforeDrop>>
    /\ UNCHANGED alertVars
    /\ UNCHANGED streamVars

\* handle_client_message {"action": "subscribe", "tickers": T}
ClientSubscribe(c, T) ==
    /\ proc[c].pc = "idle"
    /\ interest' = [interest EXCEPT ![c] = @ \cup T]
    /\ UNCHANGED <<polygon_ws, conns, subscribed_tickers, clients>>
    /\ IF ~WsUsable
       THEN proc' = [proc EXCEPT ![c] = At("connecting", T, 0)]
       ELSE IF T \ subscribed_tickers = {}
       THEN proc' = proc
       ELSE proc' = [proc EXCEPT ![c] = At("send", T \ subscribed_tickers, polygon_ws)]
    /\ running' = running
    /\ Interfere
    /\ UNCHANGED alertVars
    /\ UNCHANGED streamVars

\* handle_client_message {"action": "unsubscribe", "tickers": T}
ClientUnsubscribe(c, T) ==
    /\ proc[c].pc = "idle"
    /\ interest' = [interest EXCEPT ![c] = @ \ T]
    /\ IF WsUsable /\ T \cap subscribed_tickers # {}
       THEN proc' = [proc EXCEPT ![c] = At("unsend", T \cap subscribed_tickers, polygon_ws)]
       ELSE proc' = proc
    /\ Interfere
    /\ UNCHANGED <<running, polygon_ws, conns, subscribed_tickers, clients>>
    /\ UNCHANGED alertVars
    /\ UNCHANGED streamVars

\* remove_client emptying the registry
RemoveClient_clear(reg, c) == {}

\* remove_client: self.clients.discard(websocket)
RemoveClient(reg, c) == reg \ {c}

\* receive_text raises WebSocketDisconnect: remove_client
ClientDisconnect(c) ==
    /\ proc[c].pc = "idle"
    /\ clients' = RemoveClient(clients, c)
    /\ interest' = [interest EXCEPT ![c] = {}]
    /\ proc' = [proc EXCEPT ![c] = Frame]
    /\ UNCHANGED <<running, polygon_ws, conns, subscribed_tickers, replayState, beforeDrop>>
    /\ UNCHANGED alertVars
    /\ UNCHANGED streamVars

\* ------------------------------------------------------------------------
\* The tick path: listen_to_polygon lines 145-183 and broadcast_to_clients
\* ------------------------------------------------------------------------
\* The listener's positions "trade" and "hook" are not awaits; the steps of the
\* other coroutines commute with the listener's step before or after them.
\* the frames the feed sends: a list of trade events (sym, p)
Trades == {<<t, p>> : t \in Tickers, p \in TradePrices}

Frames == {<<tr>> : tr \in Trades}

\* the cache keeps the first price it got for a ticker
CachePut_keepFirst(cache, t, p) ==
    IF cache[t] = 0 THEN [cache EXCEPT ![t] = p] ELSE cache

\* self.price_cache[ticker] = {...}
CachePut(cache, t, p) == [cache EXCEPT ![t] = p]

\* get_price_snapshot: the REST view of the cache
Snapshot(t) ==
    IF price_cache[t] # 0
    THEN [ticker |-> t, price |-> <<price_cache[t]>>, source |-> "live_cache"]
    ELSE [ticker |-> t, price |-> Null, source |-> "cache_miss"]

\* the for loop over data goes on after a trade: next trade, or the loop head
AfterTrade(l) ==
    /\ data' = Tail(data)
    /\ proc' = [proc EXCEPT ![l].pc = IF Tail(data) = << >> THEN "top" ELSE "trade"]

\* polygon_ws.recv() returns a frame with trades of subscribed tickers;
\* json.loads
RecvFrame(l, fr) ==
    /\ proc[l].pc = "recv"
    /\ conns[proc[l].conn].st = "open"
    /\ conns[proc[l].conn].auth
    /\ \A j \in 1..Len(fr) : fr[j][1] \in conns[proc[l].conn].subs
    /\ data' = fr
    /\ proc' = [proc EXCEPT ![l].pc = "trade"]
    /\ UNCHANGED <<running, polygon_ws, conns, subscribed_tickers, clients, interest,
                   replayState, beforeDrop>>
    /\ UNCHANGED <<price_cache, bc, broken, down>>
    /\ UNCHANGED alertVars

\* one trade of the frame, lines 154-172: "if ticker and price", cache update,
\* await broadcast_to_clients(price_update)
Trade(l) ==
    /\ proc[l].pc = "trade"
    /\ data # << >>
    /\ LET t == Head(data)[1]
           p == Head(data)[2]
       IN IF p = 0
          THEN /\ AfterTrade(l)
               /\ UNCHANGED <<price_cache, bc>>
          ELSE /\ price_cache' = CachePut(price_cache, t, p)
               /\ data' = data
               /\ IF clients = {}
                  THEN /\ proc' = [proc EXCEPT ![l].pc = "hook"]
                       /\ bc' = bc
                  ELSE /\ proc' = [proc EXCEPT ![l].pc = "bcast"]
                       /\ BcStart(l, 0, <<"price_update", t, p>>)
    /\ UNCHANGED <<running, polygon_ws, conns, subscribed_tickers, clients, interest,
                   replayState, beforeDrop, broken, down>>
    /\ UNCHANGED alertVars

\* the pending client.send succeeds: the client is connected and its socket works
SendOk == bc.cur \in clients /\ bc.cur \notin broken

\* broadcast_to_clients without the try / except around the send
SendErrorCaught_none == FALSE

\* lines 206-209: except Exception: disconnected_clients.add(client)
SendErrorCaught == TRUE

\* the set iterator finds self.clients with another size than at its creation:
\* RuntimeError("Set changed size during iteration")
BcRaises == Cardinality(clients) # Cardinality(bc.reg0)

\* the clients the iterator can yield next; when the registry was changed
\* without changing its size the iterator can also stop early
BcRest == clients \ bc.seen

BcCanEnd == BcRest = {} \/ clients # bc.reg0

\* the caller of broadcast_to_clients goes on
\*   listen_to_polygon: normally to the alert hook; an exception goes to
\*   "except Exception", sleep(5), and the frame is dropped
\*   _trigger_alert: normally and after "except Exception" alike
BcReturn(raised) ==
    IF bc.lsn \in ListenerTasks
    THEN /\ task' = task
         /\ IF raised
            THEN /\ proc' = [proc EXCEPT ![bc.lsn] = At("sleep", {}, 0)]
                 /\ data' = << >>
            ELSE /\ proc' = [proc EXCEPT ![bc.lsn].pc = "hook"]
                 /\ data' = data
    ELSE /\ task' = AfterTrigger(bc.tsk)
         /\ UNCHANGED <<proc, data>>

\* await client.send(message_str) ends; the for loop takes its next step
BcSend ==
    /\ bc.pc = "send"
    /\ LET sent2 == IF SendOk THEN bc.sent \cup {bc.cur} ELSE bc.sent
           failed2 == IF SendOk THEN bc.failed ELSE bc.failed \cup {bc.cur}
       IN IF BcRaises \/ (~SendOk /\ ~SendErrorCaught)
          THEN /\ bc' = NoBroadcast
               /\ clients' = clients
               /\ BcReturn(TRUE)
          ELSE \/ /\ BcCanEnd
                  /\ bc' = NoBroadcast
                  /\ clients' = clients \ failed2
                  /\ BcReturn(FALSE)
               \/ \E c \in BcRest :
                     /\ bc' = [bc EXCEPT !.cur = c, !.seen = @ \cup {c},
                                         !.sent = sent2, !.failed = failed2]
                     /\ UNCHANGED <<clients, proc, data, task>>
    /\ UNCHANGED <<running, polygon_ws, conns, subscribed_tickers, interest,
                   replayState, beforeDrop, price_cache, broken, down>>
    /\ UNCHANGED <<now, store, last_check, processing, notified, starts, lastTick, outcome>>

\* lines 175-179: await self.on_price_update(ticker, price)
Hook(l) ==
    /\ proc[l].pc = "hook"
    /\ LET t == Head(data)[1]
           p == Head(data)[2]
       IN /\ OnPriceUpdateBody(t, p)
          /\ IF Starts(t)
             THEN /\ proc' = [proc EXCEPT ![l].pc = "eval"]
                  /\ data' = data
             ELSE AfterTrade(l)
    /\ UNCHANGED <<running, polygon_ws, conns, subscribed_tickers, clients, interest,
                   replayState, beforeDrop>>
    /\ UNCHANGED <<price_cache, bc, broken, down>>

\* on_price_update has returned to the listener
HookDone(l) ==
    /\ proc[l].pc = "eval"
    /\ \A k \in Tasks : task[k].pc = "idle"
    /\ AfterTrade(l)
    /\ UNCHANGED <<running, polygon_ws, conns, subscribed_tickers, clients, interest,
                   replayState, beforeDrop>>
    /\ UNCHANGED <<price_cache, bc, broken, down>>
    /\ UNCHANGED alertVars

\* the ticker lists a client sends in one message
ClientRequests == {{t} : t \in Tickers}

\* Reconnect and replay: one alert ticker is loaded at startup, one client
\* subscribes and unsubscribes, the upstream connection can break at any time.
InitReconnect ==
    /\ InitService
    /\ down = {}
    /\ now = 0
    /\ store = [a \in AlertIds |-> IF a = 1 THEN NewRow("AAPL", "above", 2) ELSE NoRow]
    /\ last_check = [t \in Tickers |-> 0]
    /\ processing = {}
    /\ task = [k \in Tasks |-> IdleTask]
    /\ notified = [a \in AlertIds |-> NoNotif]
    /\ starts = [t \in Tickers |-> << >>]
    /\ lastTick = "none"
    /\ outcome = [a \in AlertIds |-> "none"]

NextReconnect ==
    \/ \E ok \in BOOLEAN : BootLoad(ok)
    \/ \E p \in Procs : ConnectFail(p)
    \/ \E p \in Procs : ConnectOpen(p)
    \/ \E p \in Procs : AuthOk(p)
    \/ \E p \in Procs : AuthReject(p)
    \/ \E p \in Procs : SendDone(p)
    \/ \E c \in Clients : UnsendDone(c)
    \/ \E l \in Listeners : ListenTop(l)
    \/ \E l \in Listeners : RecvIdle(l)
    \/ \E l \in Listeners : RecvError(l)
    \/ \E l \in Listeners : ListenWake(l)
    \/ \E c \in ConnIds : Drop(c)
    \/ \E c \in ConnIds : DropStreaming(c)
    \/ \E c \in ReconnectClients : ClientConnect(c)
    \/ \E c \in ReconnectClients, T \in ClientRequests : ClientSubscribe(c, T)
    \/ \E c \in ReconnectClients, T \in ClientRequests : ClientUnsubscribe(c, T)
    \/ \E c \in ReconnectClients : ClientDisconnect(c)

SpecReconnect == InitReconnect /\ [][NextReconnect]_vars

\* The replay after a reconnect, with a reliable feed: the listener has
\* reconnected, has copied and cleared subscribed_tickers (lines 141-142) and
\* is suspended in the send of its resubscribe frame; client c1, which had
\* subscribed the tickers of the set, sends requests meanwhile.
ReplaySets == (SUBSET Tickers) \ {{}}

InitReplay ==
    /\ running = TRUE
    /\ polygon_ws = 2
    /\ conns = [c \in ConnIds |-> IF c = 1 THEN ClosedConn
                                  ELSE IF c = 2 THEN [st |-> "open", auth |-> TRUE, subs |-> {}]
                                  ELSE NoConn]
    /\ subscribed_tickers = {}
    /\ clients = {"c1"}
    /\ \E S \in ReplaySets :
          /\ interest = [c \in Clients |-> IF c = "c1" THEN S ELSE {}]
          /\ proc = [p \in Procs |-> IF p = "boot" THEN At("up", {}, 0)
                                    ELSE IF p \in Listeners THEN At("send", S, 2)
                                    ELSE IF p = "c1" THEN At("idle", {}, 0)
                                    ELSE Frame]
          /\ beforeDrop = S
    /\ replayState = "down"
    /\ price_cache = [t \in Tickers |-> 0]
    /\ data = << >>
    /\ bc = NoBroadcast
    /\ broken = {}
    /\ down = {}
    /\ now = 0
    /\ store = [a \in AlertIds |-> IF a = 1 THEN NewRow("AAPL", "above", 2) ELSE NoRow]
    /\ last_check = [t \in Tickers |-> 0]
    /\ processing = {}
    /\ task = [k \in Tasks |-> IdleTask]
    /\ notified = [a \in AlertIds |-> NoNotif]
    /\ starts = [t \in Tickers |-> << >>]
    /\ lastTick = "none"
    /\ outcome = [a \in AlertIds |-> "none"]

NextReplay ==
    \/ \E p \in Procs : SendDone(p)
    \/ \E c \in Clients : UnsendDone(c)
    \/ \E l \in Listeners : ListenTop(l)
    \/ \E l \in Listeners : RecvIdle(l)
    \/ \E c \in ReconnectClients, T \in ClientRequests : ClientSubscribe(c, T)
    \/ \E c \in ReconnectClients, T \in ClientRequests : ClientUnsubscribe(c, T)

SpecReplay == InitReplay /\ [][NextReplay]_vars

\* The event loop runs every coroutine that can go on: once a pending socket
\* call has returned or a sleep is over, the coroutine takes its next step.
\* a step of coroutine p that is not a failure of the feed
Progress(p) ==
    \/ \E ok \in BOOLEAN : p = "boot" /\ BootLoad(ok)
    \/ ConnectOpen(p)
    \/ AuthOk(p)
    \/ proc[p].pc = "authing" /\ conns[proc[p].conn].st = "closed" /\ AuthReject(p)
    \/ SendDone(p)
    \/ p \in Listeners /\ (ListenTop(p) \/ RecvIdle(p) \/ RecvError(p) \/ ListenWake(p))

\* The listener with an unreliable feed and one client, under that scheduling
NextListen ==
    \/ \E ok \in BOOLEAN : BootLoad(ok)
    \/ \E p \in Procs : ConnectFail(p)
    \/ \E p \in Procs : ConnectOpen(p)
    \/ \E p \in Procs : AuthOk(p)
    \/ \E p \in Procs : AuthReject(p)
    \/ \E p \in Procs : SendDone(p)
    \/ \E c \in Clients : UnsendDone(c)
    \/ \E l \in Listeners : ListenTop(l)
    \/ \E l \in Listeners : RecvIdle(l)
    \/ \E l \in Listeners : RecvError(l)
    \/ \E l \in Listeners : RecvMalformed(l)
    \/ \E l \in Listeners : ListenWake(l)
    \/ \E c \in ConnIds : Drop(c)
    \/ \E c \in ReconnectClients : ClientConnect(c)
    \/ \E c \in ReconnectClients, T \in ClientRequests : ClientSubscribe(c, T)
    \/ \E c \in ReconnectClients, T \in ClientRequests : ClientUnsubscribe(c, T)
    \/ \E c \in ReconnectClients : ClientDisconnect(c)

SpecListen ==
    InitReconnect /\ [][NextListen]_vars /\ \A p \in Listeners \cup {"boot"} : WF_vars(Progress(p))

\* Streaming: the service is up and streams both tickers, the store holds one
\* active alert (AAPL above 2), downstream clients come and go, and some of
\* them have a socket that fails every write.
InitStream ==
    /\ running = TRUE
    /\ polygon_ws = 1
    /\ conns = [c \in ConnIds |-> IF c = 1 THEN [st |-> "open", auth |-> TRUE, subs |-> Tickers]
                                  ELSE NoConn]
    /\ subscribed_tickers = Tickers
    /\ clients = {}
    /\ interest = [c \in Clients |-> {}]
    /\ proc = [p \in Procs |-> IF p = "boot" THEN At("up", {}, 0)
                              ELSE IF p \in Listeners THEN At("recv", {}, 1)
                              ELSE Frame]
    /\ replayState = "idle"
    /\ beforeDrop = {}
    /\ price_cache = [t \in Tickers |-> 0]
    /\ data = << >>
    /\ bc = NoBroadcast
    /\ broken = {"c1"}
    /\ down \in {{}, Notifiers}
    /\ now = 0
    /\ store = [a \in AlertIds |-> IF a = 1 THEN NewRow("AAPL", "above", 2) ELSE NoRow]
    /\ last_check = [t \in Tickers |-> 0]
    /\ processing = {}
    /\ task = [k \in Tasks |-> IdleTask]
    /\ notified = [a \in AlertIds |-> NoNotif]
    /\ starts = [t \in Tickers |-> << >>]
    /\ lastTick = "none"
    /\ outcome = [a \in AlertIds |-> "none"]

NextStream ==
    \/ \E l \in Listeners, fr \in Frames : RecvFrame(l, fr)
    \/ \E l \in Listeners : Trade(l)
    \/ BcSend
    \/ \E l \in Listeners : Hook(l)
    \/ \E l \in Listeners : HookDone(l)
    \/ \E l \in Listeners : ListenTop(l)
    \/ \E l \in Listeners : ListenWake(l)
    \/ \E k \in Tasks : Query(k)
    \/ \E k \in Tasks : QueryFail(k)
    \/ \E k \in Tasks : EvalAlert(k)
    \/ \E k \in Tasks : BroadcastAlert(k)
    \/ \E k \in Tasks : Commit(k)
    \/ \E k \in Tasks : CommitFail(k)
    \/ \E c \in Clients : ClientConnect(c)
    \/ \E c \in Clients : GreetDone(c)
    \/ \E c \in Clients : ClientDisconnect(c)
    \/ Advance

SpecStream == InitStream /\ [][NextStream]_vars

\* Frames of several trades with consumers that fail: both clients are
\* connected and stay, c1's socket fails every write, the notifiers are up or
\* down, the store query and the commit can fail.
FrameTrades == {<<"AAPL", 3>>, <<"MSFT", 1>>}

TradeFrames == UNION {[1..n -> FrameTrades] : n \in 1..MaxFrameLen}

InitFrame ==
    /\ running = TRUE
    /\ polygon_ws = 1
    /\ conns = [c \in ConnIds |-> IF c = 1 THEN [st |-> "open", auth |-> TRUE, subs |-> Tickers]
                                  ELSE NoConn]
    /\ subscribed_tickers = Tickers
    /\ clients = Clients
    /\ interest = [c \in Clients |-> {}]
    /\ proc = [p \in Procs |-> IF p = "boot" THEN At("up", {}, 0)
                              ELSE IF p \in Listeners THEN At("recv", {}, 1)
                              ELSE At("idle", {}, 0)]
    /\ replayState = "idle"
    /\ beforeDrop = {}
    /\ price_cache = [t \in Tickers |-> 0]
    /\ data = << >>
    /\ bc = NoBroadcast
    /\ broken = {"c1"}
    /\ down \in {{}, Notifiers}
    /\ now = 0
    /\ store = [a \in AlertIds |-> IF a = 1 THEN NewRow("AAPL", "above", 2) ELSE NoRow]
    /\ last_check = [t \in Tickers |-> 0]
    /\ processing = {}
    /\ task = [k \in Tasks |-> IdleTask]
    /\ notified = [a \in AlertIds |-> NoNotif]
    /\ starts = [t \in Tickers |-> << >>]
    /\ lastTick = "none"
    /\ outcome = [a \in AlertIds |-> "none"]

NextFrame ==
    \/ \E l \in Listeners, fr \in TradeFrames : RecvFrame(l, fr)
    \/ \E l \in Listeners : Trade(l)
    \/ BcSend
    \/ \E l \in Listeners : Hook(l)
    \/ \E l \in Listeners : HookDone(l)
    \/ \E l \in Listeners : ListenTop(l)
    \/ \E k \in Tasks : Query(k)
    \/ \E k \in Tasks : QueryFail(k)
    \/ \E k \in Tasks : EvalAlert(k)
    \/ \E k \in Tasks : BroadcastAlert(k)
    \/ \E k \in Tasks : Commit(k)
    \/ \E k \in Tasks : CommitFail(k)
    \/ Advance

SpecFrame == InitFrame /\ [][NextFrame]_vars

\* Alerts created while the service streams: the service is up and streams
\* MSFT, which a client subscribed earlier, the store is empty, and users
\* create, pause and delete alerts on AAPL.
InitCreate ==
    /\ running = TRUE
    /\ polygon_ws = 1
    /\ conns = [c \in ConnIds |-> IF c = 1 THEN [st |-> "open", auth |-> TRUE, subs |-> {"MSFT"}]
                                  ELSE NoConn]
    /\ subscribed_tickers = {"MSFT"}
    /\ clients = {}
    /\ interest = [c \in Clients |-> {}]
    /\ proc = [p \in Procs |-> IF p = "boot" THEN At("up", {}, 0)
                              ELSE IF p \in Listeners THEN At("recv", {}, 1)
                              ELSE Frame]
    /\ replayState = "idle"
    /\ beforeDrop = {}
    /\ price_cache = [t \in Tickers |-> 0]
    /\ data = << >>
    /\ bc = NoBroadcast
    /\ broken = {}
    /\ down = {}
    /\ now = 0
    /\ store = [a \in AlertIds |-> NoRow]
    /\ last_check = [t \in Tickers |-> 0]
    /\ processing = {}
    /\ task = [k \in Tasks |-> IdleTask]
    /\ notified = [a \in AlertIds |-> NoNotif]
    /\ starts = [t \in Tickers |-> << >>]
    /\ lastTick = "none"
    /\ outcome = [a \in AlertIds |-> "none"]

NextCreate ==
    \/ \E t \in AlertTickers, c \in Conditions, p \in Targets : create_alert(t, c, p)
    \/ \E a \in AlertIds, act \in BOOLEAN : update_alert(a, act)
    \/ \E a \in AlertIds : delete_alert(a)
    \/ \E l \in Listeners, fr \in TradeFrames : RecvFrame(l, fr)
    \/ \E l \in Listeners : Trade(l)
    \/ \E l \in Listeners : Hook(l)
    \/ \E l \in Listeners : HookDone(l)
    \/ \E l \in Listeners : ListenTop(l)
    \/ \E k \in Tasks : Query(k)
    \/ \E k \in Tasks : QueryFail(k)
    \/ Advance

SpecCreate == InitCreate /\ [][NextCreate]_vars

\* start() and stop(): the service is streaming AAPL, no alert is stored; the
\* lifespan calls stop(), client c1 connects (its endpoint calls start() when
\* the service is not running) and sends subscribe messages, the feed sends
\* trades of AAPL. One frame is in the tick path at a time.
LifeFrames == {<< <<"AAPL", 1>> >>}

LifeRequests == {{"AAPL"}}

FrameFree(l) ==
    \A m \in ListenerTasks \ {l} : proc[m].pc \notin {"trade", "bcast", "hook", "eval"}

InitLifecycle ==
    /\ running = TRUE
    /\ polygon_ws = 1
    /\ conns = [c \in ConnIds |-> IF c = 1 THEN [st |-> "open", auth |-> TRUE, subs |-> {"AAPL"}]
                                  ELSE NoConn]
    /\ subscribed_tickers = {"AAPL"}
    /\ clients = {}
    /\ interest = [c \in Clients |-> {}]
    /\ proc = [p \in Procs |-> IF p = "boot" THEN At("up", {}, 0)
                              ELSE IF p \in Listeners THEN At("recv", {}, 1)
                              ELSE Frame]
    /\ replayState = "idle"
    /\ beforeDrop = {}
    /\ price_cache = [t \in Tickers |-> 0]
    /\ data = << >>
    /\ bc = NoBroadcast
    /\ broken = {}
    /\ down = {}
    /\ now = 0
    /\ store = [a \in AlertIds |-> NoRow]
    /\ last_check = [t \in Tickers |-> 0]
    /\ processing = {}
    /\ task = [k \in Tasks |-> IdleTask]
    /\ notified = [a \in AlertIds |-> NoNotif]
    /\ starts = [t \in Tickers |-> << >>]
    /\ lastTick = "none"
    /\ outcome = [a \in AlertIds |-> "none"]

NextLifecycle ==
    \/ stop
    \/ \E c \in ReconnectClients : ClientConnect(c)
    \/ \E c \in ReconnectClients : GreetDone(c)
    \/ \E c \in ReconnectClients, T \in LifeRequests : ClientSubscribe(c, T)
    \/ \E c \in ReconnectClients : ClientDisconnect(c)
    \/ \E p \in Procs : ConnectOpen(p)
    \/ \E p \in Procs : AuthOk(p)
    \/ \E p \in Procs : SendDone(p)
    \/ \E l \in ListenerTasks : ListenTop(l)
    \/ \E l \in ListenerTasks : RecvIdle(l)
    \/ \E l \in ListenerTasks : RecvError(l)
    \/ \E l \in ListenerTasks : ListenWake(l)
    \/ \E l \in ListenerTasks, fr \in LifeFrames : FrameFree(l) /\ RecvFrame(l, fr)
    \/ \E l \in ListenerTasks : Trade(l)
    \/ BcSend
    \/ \E l \in ListenerTasks : Hook(l)

SpecLifecycle == InitLifecycle /\ [][NextLifecycle]_vars

\* ------------------------------------------------------------------------
\* Properties
\* ------------------------------------------------------------------------
Active(k) == task[k].pc # "idle"

Triggered(a) == store[a].st = "live" /\ store[a].triggered_at # Null

\* the step is the end of task k's db.commit(), with alert a among the rows it wrote
CommitEnds(k, a) ==
    /\ task[k].pc = "commit"
    /\ task'[k].pc = "idle"
    /\ a \in DirtyIds(k)

\* C1: for every alert the SMS notifier, the email notifier and the
\* alert_triggered broadcast are each executed at most once, whatever the
\* ticks and the store outcomes are.
C1_NotifiedAtMostOnce ==
    \A a \in AlertIds :
        /\ notified[a].sms <= 1
        /\ notified[a].email <= 1
        /\ notified[a].ws <= 1

\* C2: a notifier call or an alert_triggered broadcast for an alert happens
\* only after the store update isActive=false / triggeredAt=now of that alert
\* has been persisted.
C2_NotifyOnlyAfterPersist ==
    [][\A a \in AlertIds :
          notified'[a] # notified[a] => Triggered(a)]_vars

\* C3: a failed persist leaves the persisted alert as it was, the two fields
\* of the transition are only ever written together by the checker, and the
\* failed evaluation releases the ticker, so that the next evaluation of the
\* ticker reads the alert again.
C3_FailedPersistLeavesAlert ==
    [][\A a \in AlertIds :
          /\ \A k \in Tasks :
                (CommitEnds(k, a) /\ outcome'[a] = "failed") =>
                    /\ store'[a] = store[a]
                    /\ task[k].ticker \notin processing'
          /\ (task' # task /\ store'[a] # store[a]) =>
                    /\ store'[a].is_active = FALSE
                    /\ store'[a].triggered_at # Null
                    /\ store[a].triggered_at = Null
          /\ \A k \in Tasks :
                (task[k].pc = "query" /\ task'[k].pc = "loop"
                 /\ ActiveAlertFilter(store[a], task[k].ticker)) =>
                    \E j \in 1..Len(task'[k].alerts) : task'[k].alerts[j].id = a]_vars

\* an alert whose persist failed is being evaluated again
C3_Witness ==
    \E k \in Tasks :
        /\ task[k].pc = "loop"
        /\ LET a == task[k].alerts[task[k].i].id
           IN /\ outcome[a] = "failed"
              /\ store[a].is_active = TRUE
              /\ store[a].triggered_at = Null

\* C4: once the persisted triggeredAt of an alert is non-null no tick
\* evaluates the alert, notifies for it or writes its trigger again, also
\* after the CRUD layer has set is_active back to true.
C4_TriggeredNeverEvaluatedAgain ==
    [][/\ \A k \in Tasks :
            (task[k].pc = "loop" /\ task'[k] # task[k]) =>
                ~Triggered(task[k].alerts[task[k].i].id)
       /\ \A a \in AlertIds :
            (Triggered(a) /\ store'[a].st = "live") =>
                /\ store'[a].triggered_at = store[a].triggered_at
                /\ notified'[a] = notified[a]]_vars

\* a triggered alert was resumed by update_alert and a later evaluation of its
\* ticker has run to its end
C4_Witness ==
    \E a \in AlertIds :
        /\ Triggered(a)
        /\ store[a].is_active = TRUE
        /\ last_check[store[a].ticker] > store[a].triggered_at[1]
        /\ \A k \in Tasks : ~Active(k)
        /\ lastTick = "started"

\* C5 as stated: an alert with condition above is triggered by the first
\* evaluated tick with price >= target, so no evaluation that found the
\* condition true ends with the alert untriggered.
C5_FirstQualifyingTickTriggers ==
    \A a \in AlertIds :
        (store[a].st = "live" /\ store[a].condition = "above" /\ outcome[a] # "none")
            => store[a].triggered_at # Null

\* C5 amended: an evaluation that read an alert with condition above and has
\* price >= target ends either with a failed commit and the store untouched,
\* or with the alert persisted as triggered; once it is persisted as
\* triggered no later tick changes its trigger or notifies for it.
C5_AboveTriggersWhenPersisted ==
    [][/\ \A k \in Tasks :
            (task[k].pc = "commit" /\ task'[k].pc = "idle") =>
                \A j \in 1..Len(task[k].alerts) :
                    LET a == task[k].alerts[j]
                    IN (a.condition = "above" /\ task[k].price >= a.target) =>
                          \/ outcome'[a.id] = "failed" /\ store' = store
                          \/ /\ outcome'[a.id] = "persisted"
                             /\ store'[a.id].is_active = FALSE
                             /\ store'[a.id].triggered_at # Null
       /\ \A a \in AlertIds :
            (Triggered(a) /\ store[a].condition = "above" /\ task' # task) =>
                /\ store'[a] = store[a]
                /\ notified'[a] = notified[a]]_vars

\* an above alert was persisted as triggered by a tick at its target price and a
\* later tick of the ticker has been evaluated to its end
C5_Witness ==
    \E a \in AlertIds :
        /\ Triggered(a)
        /\ store[a].condition = "above"
        /\ store[a].is_active = FALSE
        /\ outcome[a] = "persisted"
        /\ notified[a].ws = 1
        /\ last_check[store[a].ticker] > store[a].triggered_at[1]
        /\ \A k \in Tasks : ~Active(k)
        /\ lastTick = "started"

Ceil(n, d) == (n + d - 1) \div d

\* C6: two store-touching evaluations of a ticker start at least
\* THROTTLE_SECONDS apart, so any window of length W holds at most
\* ceil(W / THROTTLE_SECONDS) + 1 of them.
C6_ThrottleWindow ==
    \A t \in Tickers :
        /\ \A i \in 1..(Len(starts[t]) - 1) :
              starts[t][i + 1] - starts[t][i] >= THROTTLE_SECONDS
        /\ \A i, j \in 1..Len(starts[t]) :
              i <= j => j - i + 1 <= Ceil(starts[t][j] - starts[t][i], THROTTLE_SECONDS) + 1

\* a ticker has had two evaluations and a tick inside the window was dropped
C6_Witness ==
    \E t \in Tickers :
        /\ Len(starts[t]) >= 2
        /\ lastTick = "throttled"
        /\ now = last_check[t]

\* C7: no two evaluations of the same ticker are in progress at the same time.
C7_NoOverlappingEvaluation ==
    \A k1, k2 \in Tasks :
        (k1 # k2 /\ Active(k1) /\ Active(k2)) => task[k1].ticker # task[k2].ticker

\* a tick arrived after the throttle window while the evaluation of its ticker
\* was still suspended, and was turned away by the guard
C7_Witness ==
    /\ lastTick = "inflight"
    /\ \E k \in Tasks : Active(k) /\ now - last_check[task[k].ticker] >= THROTTLE_SECONDS


\* every request has returned to its caller: startup is over, every client
\* waits for its next message, the listener waits for the next frame
Quiescent ==
    /\ proc["boot"].pc = "up"
    /\ \A c \in Clients : proc[c].pc \in {"off", "idle"}
    /\ \A l \in Listeners : proc[l].pc = "recv"

\* the tickers some connected client is interested in
ClientInterest == UNION {interest[c] : c \in clients}

\* C8: whenever no subscription request is in progress, subscribed_tickers
\* contains every ticker a connected client is interested in and every ticker
\* with an active, untriggered alert.
C8_SubscriptionSetCoversInterest ==
    Quiescent => (ClientInterest \cup AlertTickerSet) \subseteq subscribed_tickers

\* C9: a client's unsubscribe request never removes from subscribed_tickers a
\* ticker that has an active, untriggered alert.
C9_NoUnsubscribeWhileAlertActive ==
    [][\A c \in Clients, t \in Tickers :
          (/\ proc[c].pc = "unsend"
           /\ proc'[c].pc = "idle"
           /\ t \in subscribed_tickers
           /\ ActiveAlerts(t) # {})
          => t \in subscribed_tickers']_vars

\* C10: when the listener is streaming again after an upstream drop, with no
\* client request in between, subscribed_tickers and the subscriptions held
\* by the new connection both equal the set held at the moment of the drop.
C10_ReplayRestoresSubscriptionSet ==
    [][(replayState = "down" /\ replayState' = "idle")
          => (/\ subscribed_tickers' = beforeDrop
              /\ conns'[polygon_ws'].subs = beforeDrop)]_vars


\* a consumer of a tick is at work: the Broadcaster is suspended on a send,
\* or an alert evaluation has not returned yet
ConsumerBusy == bc.pc = "send" \/ \E k \in Tasks : task[k].pc # "idle"

\* C11: while the delivery of a tick to the clients or the alert evaluation of
\* a tick is in progress, the read loop is at its receive, ready to take the
\* next inbound frame.
C11_ReadLoopNotBlocked ==
    \A l \in Listeners : (running /\ ConsumerBusy) => proc[l].pc = "recv"


\* the step applies the trade at the head of data to the price cache
AppliesTrade(l) ==
    /\ proc[l].pc = "trade"
    /\ proc'[l].pc # "trade"
    /\ data # << >>
    /\ Head(data)[2] # 0

\* C12: a tick applied for ticker T makes T's cache entry that tick and leaves
\* the entries of all other tickers as they were; no other step changes an
\* entry (so each entry is the last tick applied for its ticker).
C12_CacheLastWriteWins ==
    [][/\ \A l \in Listeners :
             AppliesTrade(l) =>
                 /\ Snapshot(Head(data)[1])' =
                        [ticker |-> Head(data)[1], price |-> <<Head(data)[2]>>,
                         source |-> "live_cache"]
                 /\ \A u \in Tickers \ {Head(data)[1]} : Snapshot(u)' = Snapshot(u)
       /\ (\A l \in Listeners : ~AppliesTrade(l)) =>
             \A u \in Tickers : Snapshot(u)' = Snapshot(u)]_vars

\* AAPL's entry was 3 when alert 1 was triggered and is 1 now, MSFT has an entry
C12_Witness ==
    /\ notified[1].email >= 1
    /\ price_cache["AAPL"] = 1
    /\ price_cache["MSFT"] # 0


\* the clients the message has been written to when the pending send is over
SentAfter == IF SendOk THEN bc.sent \cup {bc.cur} ELSE bc.sent

\* C13: in a broadcast over an unchanged registry a failed send is followed by
\* the sends to the clients not yet visited, and when the broadcast ends every
\* registered client with a working socket has been written to.
C13_FailingClientIsolated ==
    [][(bc.pc = "send" /\ clients = bc.reg0) =>
          /\ (~SendOk /\ BcRest # {}) => bc'.pc = "send"
          /\ bc'.pc = "off" => (clients \ broken) \subseteq SentAfter]_vars

\* the send to the broken client c1 has failed and the send to c2 is pending
C13_Witness ==
    /\ bc.pc = "send"
    /\ clients = bc.reg0
    /\ "c1" \in bc.failed
    /\ bc.cur = "c2"
    /\ "c2" \notin broken

\* C14: a broadcast ends by returning to its caller (the listener goes on to
\* the alert hook of the tick) after a write to every client with a working
\* socket that was registered throughout, whatever clients connected or
\* disconnected while it was suspended.
C14_RegistryChangeSafe ==
    [][(bc.pc = "send" /\ bc'.pc = "off") =>
          /\ bc.lsn \in Listeners => proc'[bc.lsn].pc = "hook"
          /\ ((bc.reg0 \cap clients) \ broken) \subseteq SentAfter]_vars


\* the alert task k is working on
Cur(k) == task[k].alerts[task[k].i]

\* the step is task k's trigger of the alert it is working on: the condition
\* holds and _trigger_alert runs up to its broadcast
Triggers(k) ==
    /\ task[k].pc = "loop"
    /\ EvaluateCondition(Cur(k).condition, Cur(k).target, task[k].price)
    /\ task'[k] # task[k]

\* the step is the call of the broadcast function in task k's trigger sequence
Emits(k) ==
    /\ task[k].pc = "broadcast"
    /\ task'[k] # task[k]

\* C18: whichever notifiers fail, a trigger invokes the SMS notifier once (for
\* an opted-in alert) and the email notifier once, goes on to the
\* alert_triggered broadcast with the alert's triggered state still pending
\* in the session, the broadcast step invokes no notifier again, and a
\* successful commit persists the triggered state.
C18_NotifierFailuresIsolated ==
    [][\A k \in Tasks :
          /\ Triggers(k) =>
               /\ notified'[Cur(k).id].sms =
                      notified[Cur(k).id].sms + (IF SmsOptIn(Cur(k).id) THEN 1 ELSE 0)
               /\ notified'[Cur(k).id].email = notified[Cur(k).id].email + 1
               /\ task'[k].pc = "broadcast"
               /\ Cur(k).id \in {d[1] : d \in task'[k].dirty}
          /\ Emits(k) =>
               /\ notified'[Cur(k).id].sms = notified[Cur(k).id].sms
               /\ notified'[Cur(k).id].email = notified[Cur(k).id].email
               /\ task'[k].dirty = task[k].dirty
          /\ \A a \in AlertIds :
               (CommitEnds(k, a) /\ outcome'[a] = "persisted") => Triggered(a)']_vars

\* both providers are down and alert 1 is persisted as triggered after one
\* SMS call, one email call and one broadcast
C18_Witness ==
    /\ down = Notifiers
    /\ Triggered(1)
    /\ notified[1] = [sms |-> 1, email |-> 1, ws |-> 1]

\* C19: whatever the notifiers do, every trigger goes on to the broadcast
\* call; the call is counted once and, with clients registered, starts one
\* alert_triggered broadcast over the whole registry; the count of an alert
\* changes in no other step, so a tick that triggers nothing emits nothing.
C19_OneEventPerTrigger ==
    [][/\ \A k \in Tasks :
             /\ Triggers(k) => task'[k].pc = "broadcast"
             /\ Emits(k) =>
                  /\ notified'[Cur(k).id].ws = notified[Cur(k).id].ws + 1
                  /\ \A a \in AlertIds \ {Cur(k).id} : notified'[a].ws = notified[a].ws
                  /\ clients # {} =>
                       /\ bc'.pc = "send"
                       /\ bc'.msg = <<"alert_triggered", Cur(k).id>>
                       /\ bc'.reg0 = clients
                  /\ clients = {} => bc' = bc
       /\ (\A k \in Tasks : ~Emits(k)) =>
             \A a \in AlertIds : notified'[a].ws = notified[a].ws]_vars

\* both providers are down, the alert_triggered event of alert 1 has been
\* written to c2 and the write to c1 is pending
C19_Witness ==
    /\ down = Notifiers
    /\ bc.pc = "send"
    /\ bc.msg = <<"alert_triggered", 1>>
    /\ "c2" \in bc.sent
    /\ bc.cur = "c1"
    /\ notified[1].ws = 1


\* the step is connect_to_polygon returning False to p because the feed
\* answered the auth frame on an open connection with another status
AuthRejected(p) ==
    /\ proc[p].pc = "authing"
    /\ conns[proc[p].conn].st = "open"
    /\ proc'[p].pc # "authing"
    /\ ~conns'[proc[p].conn].auth

\* C15: when the feed rejects the authentication the failure stops ingestion:
\* at startup the service is not started, and the listener ends instead of
\* going to its retry sleep.
C15_AuthFailureStopsIngestion ==
    [][/\ AuthRejected("boot") => ~running'
       /\ \A l \in Listeners :
             AuthRejected(l) => (~running' /\ proc'[l].pc = "off")]_vars

\* the connections that are open
OpenConns == {c \in ConnIds : conns[c].st = "open"}

\* C17: the service never has more than one open upstream connection.
C17_AtMostOneOpenConnection == Cardinality(OpenConns) <= 1

\* C20: whenever no subscription request is in progress, subscribed_tickers is
\* exactly the union of the tickers connected clients are interested in and
\* the tickers with an active, untriggered alert.
C20_SubscriptionSetIsUnion ==
    Quiescent => subscribed_tickers = ClientInterest \cup AlertTickerSet


\* the listener waits for a frame on the service's open, authenticated connection
Streaming(l) ==
    /\ proc[l].pc = "recv"
    /\ polygon_ws # 0
    /\ proc[l].conn = polygon_ws
    /\ conns[polygon_ws].st = "open"
    /\ conns[polygon_ws].auth

\* a step in which the feed fails: a connect fails, an authentication is
\* rejected, a connection breaks, a frame is malformed
FeedFault ==
    \/ \E p \in Procs : ConnectFail(p)
    \/ \E p \in Procs :
          proc[p].pc = "authing" /\ conns[proc[p].conn].st = "open" /\ AuthReject(p)
    \/ \E c \in ConnIds : Drop(c)
    \/ \E l \in Listeners : RecvMalformed(l)

\* every connection of the model has been used
Exhausted == \A c \in ConnIds : conns[c].st # "unused"

\* the service holds an open connection the feed has not authenticated
Unauthenticated ==
    /\ polygon_ws # 0
    /\ conns[polygon_ws].st = "open"
    /\ ~conns[polygon_ws].auth

\* C16: while the service is running the listener never ends; after every
\* error it connects again or receives on a usable connection; and unless
\* the feed keeps failing (or rejected the authentication, or the model has no
\* connection left) the listener is streaming again and again.
C16_ListenerRetriesForever ==
    /\ [](running => \A l \in Listeners : proc[l].pc # "off")
    /\ \A l \in Listeners :
          (proc[l].pc = "sleep") ~> (proc[l].pc \in {"connecting", "recv"})
    /\ \A l \in Listeners :
          \/ []<>Streaming(l)
          \/ []<><<FeedFault>>_vars
          \/ <>[]Exhausted
          \/ <>[]Unauthenticated

\* the first connection broke and the listener streams on a later one
C16_Witness ==
    /\ conns[1].st = "closed"
    /\ beforeDrop = subscribed_tickers
    /\ Streaming("L1")
    /\ polygon_ws > 1


\* p starts the send of a subscribe frame / of an unsubscribe frame
StartsSend(p) == proc[p].pc # "send" /\ proc'[p].pc = "send"

StartsUnsend(p) == proc[p].pc # "unsend" /\ proc'[p].pc = "unsend"

\* p's pending send ends with the frame written to an open connection
FrameOut(p, kind) ==
    /\ proc[p].pc = kind
    /\ proc'[p].pc # kind
    /\ conns[proc[p].conn].st = "open"

\* the listener clears the set at the start of its replay
ReplayClears == \E l \in Listeners : proc[l].pc = "authing" /\ proc'[l].pc # "authing"

\* C21: a subscribe frame carries only tickers that are not in
\* subscribed_tickers and an unsubscribe frame only tickers that are, so a
\* call for tickers already in the desired state sends no frame; a call that
\* sends no frame leaves subscribed_tickers as it is; and a frame that went
\* out leaves its tickers subscribed (unsubscribed), so that the same call
\* applied again sends nothing and changes nothing.
C21_SubscribeIdempotent ==
    [][/\ \A p \in Procs :
             /\ StartsSend(p) =>
                  /\ proc'[p].tickers # {}
                  /\ proc'[p].tickers \cap subscribed_tickers' = {}
             /\ StartsUnsend(p) =>
                  /\ proc'[p].tickers # {}
                  /\ proc'[p].tickers \subseteq subscribed_tickers'
             /\ FrameOut(p, "send") =>
                  subscribed_tickers' = subscribed_tickers \cup proc[p].tickers
             /\ FrameOut(p, "unsend") =>
                  subscribed_tickers' = subscribed_tickers \ proc[p].tickers
       /\ (/\ \A p \in Procs : ~FrameOut(p, "send") /\ ~FrameOut(p, "unsend")
           /\ ~ReplayClears) =>
             subscribed_tickers' = subscribed_tickers]_vars

\* client c1 asked for AAPL while AAPL was subscribed and the connection was
\* down: its call opened a connection and returned without a subscribe frame
C21_Witness ==
    /\ polygon_ws # 0
    /\ conns[polygon_ws].st = "open"
    /\ conns[polygon_ws].auth
    /\ conns[polygon_ws].subs = {}
    /\ subscribed_tickers = {"AAPL"}
    /\ interest["c1"] = {"AAPL"}
    /\ proc["c1"].pc = "idle"


\* the step registers client c
Registers(c) == c \notin clients /\ c \in clients'

\* the step ends a broadcast write that reached client c
WritesTo(c) == bc.pc = "send" /\ bc' # bc /\ bc.cur = c /\ SendOk

\* C22: the step that registers a client issues the send of one price_cache
\* message to it, whatever the cache holds, and no broadcast message is
\* written to the client before that send has ended.
C22_SnapshotFirst ==
    [][\A c \in Clients :
          /\ Registers(c) => proc'[c].pc = "greet"
          /\ WritesTo(c) => proc[c].pc # "greet"]_vars


\* the step is a failure on a consumer's path: a client write that fails, or
\* an alert evaluation that ends with an exception
SendFails == bc.pc = "send" /\ bc' # bc /\ ~SendOk

EvalFails(k) ==
    /\ task[k].pc # "idle"
    /\ task'[k].pc = "idle"
    /\ \/ task[k].pc = "query" /\ QueryResults(task[k].ticker) # {<< >>}
       \/ task[k].pc = "commit" /\ store' = store /\ task[k].dirty # {}

\* C23: a failing client write or a failing alert evaluation leaves the
\* listener in the frame it is working on: the frame loses nothing, the listener
\* does not go to its error sleep, a price broadcast that met failing clients
\* still hands its tick to the alert hook, and after the alert evaluation of a
\* trade, failed or not, the listener goes on with the next trade of the frame
\* or with the next frame.
C23_ConsumerFailureContained ==
    [][/\ \A l \in Listeners :
             /\ proc'[l].pc \notin {"sleep", "off"}
             /\ (SendFails \/ \E k \in Tasks : EvalFails(k)) =>
                   /\ data' = data
                   /\ proc'[l].pc \in {proc[l].pc, "hook"}
             /\ (proc[l].pc = "bcast" /\ proc'[l].pc # "bcast") =>
                   /\ proc'[l].pc = "hook"
                   /\ data' = data
             /\ (proc[l].pc = "eval" /\ proc'[l].pc # "eval") =>
                   /\ data' = Tail(data)
                   /\ proc'[l].pc = IF Tail(data) = << >> THEN "top" ELSE "trade"
       /\ data' # data => (data = << >> \/ data' = Tail(data))]_vars

\* the write to c1 failed, the evaluation of the AAPL trade ended with a failed
\* commit, and the listener is at the MSFT trade that follows it in the frame
C23_Witness ==
    /\ "c1" \notin clients
    /\ outcome[1] = "failed"
    /\ Len(starts["AAPL"]) = 1
    /\ \A k \in Tasks : task[k].pc = "idle"
    /\ proc["L1"].pc = "trade"
    /\ data = << <<"MSFT", 1>> >>
    /\ price_cache["MSFT"] = 0


\* the step is the end of client c's endpoint handler: remove_client
Removes(c) == proc[c].pc = "idle" /\ proc'[c].pc = "off"

\* C24: RemoveClient leaves a registry that does not hold the client as it is,
\* applied twice it gives the registry it gives applied once, and the handler
\* that calls it ends with the registry RemoveClient gives, the client gone and
\* every other client where it was, also for a client a broadcast has
\* already removed.
C24_RemoveClientIdempotent ==
    [][\A c \in Clients :
          /\ c \notin clients => RemoveClient(clients, c) = clients
          /\ RemoveClient(RemoveClient(clients, c), c) = RemoveClient(clients, c)
          /\ Removes(c) =>
                /\ clients' = RemoveClient(clients, c)
                /\ c \notin clients'
                /\ clients' \ {c} = clients \ {c}
                /\ \A p \in Procs \ {c} : proc'[p] = proc[p]]_vars

\* a broadcast has removed c1 after a failed write while c1's handler is still
\* waiting for a message, and c2 is registered
C24_Witness ==
    /\ proc["c1"].pc = "idle"
    /\ "c1" \notin clients
    /\ "c2" \in clients
    /\ bc.pc = "off"


\* C25: when the persist of an evaluation fails on one alert of its batch
\* (the row was deleted meanwhile), every other alert of the batch, whose
\* notifications have been sent, is still persisted as triggered.
C25_PersistFailureIsPerAlert ==
    [][\A k \in Tasks, a \in AlertIds :
          (/\ CommitEnds(k, a)
           /\ store[a].st = "live"
           /\ notified[a].email >= 1
           /\ \E b \in DirtyIds(k) : b # a /\ store[b].st = "deleted")
          => (store'[a].triggered_at # Null /\ store'[a].is_active = FALSE)]_vars


\* the persisted alert is live and active
StillActive(a) == store[a].st = "live" /\ store[a].is_active = TRUE

\* C26: a notifier call or an alert_triggered broadcast happens only for an
\* alert that is still active in the store, and the commit of an evaluation
\* leaves an alert as it is when the CRUD layer has deactivated or deleted it
\* since the evaluation read it.
C26_TriggerOnlyIfStillActive ==
    [][\A a \in AlertIds :
          /\ notified'[a] # notified[a] => StillActive(a)
          /\ \A k \in Tasks :
                (CommitEnds(k, a) /\ ~StillActive(a)) => store'[a] = store[a]]_vars


\* C27: with a reliable feed and one client whose subscriptions made up the
\* set before the reconnect, the replay leaves the set as it is wherever it
\* is placed among the client's calls, so once the replay and the client's
\* calls have all completed subscribed_tickers is the set of tickers the
\* client has subscribed and not unsubscribed.
C27_SubscriptionUpdatesSerialized ==
    Quiescent => subscribed_tickers = interest["c1"]


\* the step creates alert a
Creates(a) == store[a].st = "absent" /\ store'[a].st = "live"

\* C28: the creation of an alert for ticker T leaves T in subscribed_tickers,
\* or a subscribe call for T in progress.
C28_CreateSubscribesTicker ==
    [][\A a \in AlertIds :
          Creates(a) =>
             \/ store'[a].ticker \in subscribed_tickers'
             \/ \E p \in Procs :
                   /\ proc'[p].pc \in {"connecting", "authing", "send"}
                   /\ store'[a].ticker \in proc'[p].tickers]_vars


\* C29: once startup is over and the listener streams on an established
\* connection, with no client connected, every ticker with an active,
\* untriggered alert is in subscribed_tickers and is subscribed upstream on
\* that connection.
C29_StartupSubscribesAlertTickers ==
    (/\ proc["boot"].pc = "up"
     /\ clients = {}
     /\ \E l \in Listeners : Streaming(l))
    => (/\ AlertTickerSet \subseteq subscribed_tickers
        /\ AlertTickerSet \subseteq conns[polygon_ws].subs)

\* C30: a subscribe or unsubscribe frame is in flight, and the listener waits
\* for trade frames, only on a connection whose authentication the feed has
\* acknowledged.
C30_FramesOnlyWhenAuthenticated ==
    \A p \in Procs :
        (/\ proc[p].pc \in {"send", "unsend", "recv"}
         /\ conns[proc[p].conn].st = "open")
        => conns[proc[p].conn].auth


\* alert row a of task k's batch has its condition satisfied by task k's tick
Hit(k, a) == EvaluateCondition(a.condition, a.target, task[k].price)

\* the step is the end of task k's evaluation after its loop
EvaluationEnds(k) == task[k].pc = "commit" /\ task'[k].pc = "idle"

\* the step is the end of task k's evaluation with a commit that did not fail
CommitSucceeds(k) ==
    /\ EvaluationEnds(k)
    /\ \A a \in DirtyIds(k) : outcome'[a] = "persisted"

\* C31 as stated: every evaluation that read alerts of a ticker ends with each
\* alert whose condition the tick satisfies persisted as triggered.
C31_EvaluationTriggersAllHits ==
    [][\A k \in Tasks :
          EvaluationEnds(k) =>
             \A j \in 1..Len(task[k].alerts) :
                Hit(k, task[k].alerts[j]) =>
                   /\ store'[task[k].alerts[j].id].triggered_at # Null
                   /\ store'[task[k].alerts[j].id].is_active = FALSE]_vars

\* C31 amended: in one evaluation every alert of the batch whose condition the
\* tick satisfies gets one email call and one alert_triggered broadcast call
\* of its own, an alert whose condition does not hold gets none, and an
\* evaluation whose commit succeeds persists exactly the satisfied alerts as
\* triggered and leaves the other alerts of the batch as they are.
C31_CommittedEvaluationTriggersAllHits ==
    [][\A k \in Tasks :
          /\ (task[k].pc = "loop" /\ task'[k] # task[k]) =>
                IF Hit(k, Cur(k))
                THEN /\ notified'[Cur(k).id].email = notified[Cur(k).id].email + 1
                     /\ \A a \in AlertIds \ {Cur(k).id} : notified'[a] = notified[a]
                     /\ task'[k].pc = "broadcast"
                     /\ DirtyIds(k)' = DirtyIds(k) \cup {Cur(k).id}
                ELSE /\ notified' = notified
                     /\ task'[k].dirty = task[k].dirty
          /\ Emits(k) =>
                /\ notified'[Cur(k).id].ws = notified[Cur(k).id].ws + 1
                /\ \A a \in AlertIds \ {Cur(k).id} : notified'[a] = notified[a]
          /\ CommitSucceeds(k) =>
                \A j \in 1..Len(task[k].alerts) :
                   IF Hit(k, task[k].alerts[j])
                   THEN /\ store'[task[k].alerts[j].id].triggered_at # Null
                        /\ store'[task[k].alerts[j].id].is_active = FALSE
                   ELSE store'[task[k].alerts[j].id] = store[task[k].alerts[j].id]]_vars

\* an above alert and a below alert with the same target were both triggered
\* by one tick at the target price, each with one email and one broadcast
C31_Witness ==
    /\ Triggered(1)
    /\ Triggered(2)
    /\ store[1].condition # store[2].condition
    /\ store[1].triggered_at = store[2].triggered_at
    /\ notified[1].email = 1 /\ notified[1].ws = 1
    /\ notified[2].email = 1 /\ notified[2].ws = 1


\* C32: the loop of an evaluation enters the trigger path for an alert exactly
\* when the alert's condition is above and the tick price is >= its target, or
\* its condition is below and the tick price is <= its target; with any other
\* condition word it never does.
C32_ConditionSemantics ==
    [][\A k \in Tasks :
          (task[k].pc = "loop" /\ task'[k] # task[k]) =>
             ( (notified'[Cur(k).id] # notified[Cur(k).id])
               <=> \/ Cur(k).condition = "above" /\ task[k].price >= Cur(k).target
                   \/ Cur(k).condition = "below" /\ task[k].price <= Cur(k).target )]_vars

\* a below alert is in the trigger path on a tick whose price equals its target
C32_Witness ==
    \E k \in Tasks :
       /\ task[k].pc = "broadcast"
       /\ Cur(k).condition = "below"
       /\ task[k].price = Cur(k).target

\* an alert with another condition word was evaluated on a tick at its target
\* and the evaluation went on to its commit without a trigger
EqualConditionEvaluated ==
    \E k \in Tasks :
       /\ task[k].pc = "commit"
       /\ task[k].alerts # << >>
       /\ task[k].alerts[1].condition = "equal"
       /\ task[k].price = task[k].alerts[1].target
       /\ task[k].dirty = {}


\* the step is a tick that on_price_update turned away for the given reason
Rejected(why) == lastTick' = why /\ lastTick' # lastTick

\* C33: a tick rejected by the throttle check or by the in-flight guard starts
\* no query and leaves the store, _last_check, _processing and every
\* evaluation in progress as they are; _last_check[ticker] changes only in a
\* step that starts an evaluation of the ticker, and then to now.
C33_RejectedTickChangesNothing ==
    [][/\ (Rejected("throttled") \/ Rejected("inflight")) =>
             /\ store' = store
             /\ last_check' = last_check
             /\ processing' = processing
             /\ task' = task
             /\ notified' = notified
       /\ \A t \in Tickers :
             last_check'[t] # last_check[t] =>
                /\ last_check'[t] = now
                /\ t \notin processing
                /\ t \in processing'
                /\ \E k \in Tasks : /\ task[k].pc = "idle"
                                    /\ task'[k].pc = "query"
                                    /\ task'[k].ticker = t]_vars

\* a tick was turned away by the in-flight guard a full window after the
\* evaluation in progress started, and _last_check still holds that start
C33_Witness ==
    \E t \in Tickers :
        /\ lastTick = "inflight"
        /\ processing = {t}
        /\ starts[t] # << >>
        /\ last_check[t] = starts[t][Len(starts[t])]
        /\ now >= last_check[t] + THROTTLE_SECONDS


\* the clients whose send has raised when the pending send is over
FailedAfter == IF SendOk THEN bc.failed ELSE bc.failed \cup {bc.cur}

\* C34: the steps of a broadcast leave the registry alone while the iteration
\* goes on, and the step that ends the broadcast leaves no client whose send
\* raised in the registry and removes no client whose send succeeded.
C34_FailedClientsRemoved ==
    [][(bc.pc = "send" /\ bc' # bc) =>
          /\ bc'.pc = "send" => clients' = clients
          /\ bc'.pc = "off" =>
                /\ FailedAfter \cap clients' = {}
                /\ (SentAfter \cap clients) \subseteq clients']_vars

\* the same for the broadcasts whose iteration is not cut short by the
\* registry changing size under it
CompletedBroadcastRemovesFailed ==
    [][(bc.pc = "send" /\ bc' # bc /\ ~BcRaises) =>
          /\ bc'.pc = "send" => clients' = clients
          /\ bc'.pc = "off" =>
                /\ FailedAfter \cap clients' = {}
                /\ (SentAfter \cap clients) \subseteq clients']_vars


\* C35: when every request has returned and the listener waits for frames on
\* the service's open connection, every ticker of subscribed_tickers is
\* subscribed on that connection (a subscribe frame for it went out on the
\* connection and no unsubscribe frame after it).
C35_LocalSetBackedByConnection ==
    (Quiescent /\ \E l \in Listeners : Streaming(l))
    => subscribed_tickers \subseteq conns[polygon_ws].subs


\* the connection in use was opened by a subscribe call after the previous one
\* had closed, no other connection is open, and the tickers of
\* subscribed_tickers were never sent on it
ResubscribedOnEmptyConnection ==
    /\ Quiescent
    /\ \E l \in Listeners : Streaming(l)
    /\ polygon_ws = 2
    /\ conns[1].st = "closed"
    /\ beforeDrop = subscribed_tickers
    /\ conns[3].st = "unused"
    /\ subscribed_tickers # {}
    /\ conns[2].subs = {}


\* the listener tasks that have been created and have not returned
LiveListeners == {l \in ListenerTasks : proc[l].pc # "off"}

\* C36: at most one listen_to_polygon task is alive at any time, whatever
\* start() and stop() calls were made.
C36_AtMostOneListenerTask == Cardinality(LiveListeners) <= 1


\* the listener of the first start() has outlived a stop(): it has passed its
\* loop head again and receives on a later connection, and the listener of the
\* second start() is alive too
TwoListenersStreaming ==
    /\ running
    /\ proc["L1"].pc = "recv"
    /\ proc["L1"].conn > 1
    /\ proc["L2"].pc \in {"sleep", "top"}
    /\ price_cache["AAPL"] # 0


\* C37: _processing holds exactly the tickers that have an evaluation in
\* progress; a ticker whose evaluation has returned, normally or after a store
\* error, is not in it.
C37_GuardAlwaysReleased ==
    processing = {task[k].ticker : k \in {j \in Tasks : Active(j)}}

\* the commit of an evaluation has failed, the evaluation has returned and no
\* ticker is held by the guard
C37_Witness ==
    /\ \E a \in AlertIds : outcome[a] = "failed"
    /\ \A k \in Tasks : ~Active(k)
    /\ processing = {}
    /\ lastTick = "started"


\* where the caller p of subscribe_to_tickers or unsubscribe_from_tickers goes
\* on when the call has returned without an exception
Continues(p) ==
    IF p = "boot" THEN proc'[p].pc = "up"
    ELSE IF p \in Clients THEN proc'[p].pc = "idle"
    ELSE proc'[p].pc = "recv"

\* the step ends the connection attempt of p's subscribe call without a
\* usable connection
ConnectFails(p) ==
    /\ p \notin ListenerTasks
    /\ proc[p].pc \in {"connecting", "authing"}
    /\ proc'[p].pc \notin {"connecting", "authing", "send"}

\* the step ends the send of p's control frame with an exception
SendRaises(p) ==
    /\ proc[p].pc \in {"send", "unsend"}
    /\ proc'[p].pc # proc[p].pc
    /\ conns[proc[p].conn].st # "open"

\* the step ends the send of p's control frame, and the frame went out
SendReturns(p) ==
    /\ proc[p].pc \in {"send", "unsend"}
    /\ proc'[p].pc # proc[p].pc
    /\ conns[proc[p].conn].st = "open"

\* C38: a subscribe call whose connection attempt fails and a subscribe or
\* unsubscribe call whose send raises leave subscribed_tickers as it is and
\* return to their caller, which goes on as after a successful call; outside
\* the listener's clear before its replay, subscribed_tickers changes only in
\* the step in which the send of a control frame returns.
C38_FailedRequestLeavesSet ==
    [][/\ \A p \in Procs :
             (ConnectFails(p) \/ SendRaises(p)) =>
                 /\ subscribed_tickers' = subscribed_tickers
                 /\ Continues(p)
       /\ (subscribed_tickers' # subscribed_tickers /\ ~ReplayClears) =>
             \E p \in Procs : SendReturns(p)]_vars

\* the connection is closed, the subscribe call of c1 for MSFT has returned to
\* the handler and MSFT is not in subscribed_tickers
C38_Witness ==
    /\ polygon_ws # 0
    /\ conns[polygon_ws].st = "closed"
    /\ proc["c1"].pc = "idle"
    /\ interest["c1"] = {"MSFT"}
    /\ "MSFT" \notin subscribed_tickers


\* stop() has returned and start() has not been called since
Stopped == proc["boot"].pc = "up" /\ ~running

\* C39: from the return of stop() until the next start(), running stays false,
\* no upstream connection is opened, no listener takes a frame from the feed,
\* and a listener at its loop head leaves the loop.
C39_StoppedServiceStaysDown ==
    [][(Stopped /\ ~running') =>
          /\ \A c \in ConnIds : conns'[c].st = "open" => conns[c].st = "open"
          /\ \A l \in ListenerTasks :
                /\ ~(proc[l].pc = "recv" /\ proc'[l].pc = "trade")
                /\ (proc[l].pc = "top" /\ proc'[l] # proc[l]) => proc'[l].pc = "off"]_vars

====
